---- MODULE Spec2Model ----
(***************************************************************************)
(* Incremental snapshot reconciliation of the horizon ETL pipelines        *)
(* (src/data/pipelines/polygon_equities_*.py).                             *)
(*                                                                         *)
(* One behaviour follows one data domain: the persisted snapshot file of   *)
(* that domain and the runs of its update script.  The dividends and the   *)
(* splits scripts are line-for-line the same algorithm (only the column    *)
(* names differ), so their steps share the same actions.                   *)
(*                                                                         *)
(* Specifications:                                                         *)
(*   Spec            the runs of one script, one after the other           *)
(*   SpecFaults      Spec with reads of the file that fail                 *)
(*   SpecKilled      Spec with runs that are killed before their end       *)
(*   SpecDates       Spec with dates that pd.to_datetime cannot parse      *)
(*   SpecWatermark   the dividends or the IPO runs of Spec against a       *)
(*                   vendor with records dated inside the lookback window  *)
(*   SpecConcurrent  two processes of the dividends or splits script       *)
(*   SpecPages       one IPO run against an endpoint with up to MaxPages   *)
(*                   pages                                                 *)
(*   SpecPagesFair   SpecPages, each step of the run eventually taken      *)
(*   SpecBatches     the loop over the batches of a long entity list       *)
(*   SpecDownload    one call of PolygonS3Connector.download_date_range    *)
(*                   (src/data/connectors/polygon_s3_connector.py), each   *)
(*                   step of it eventually taken                           *)
(*                                                                         *)
(* A row of a DataFrame is a record with four columns:                     *)
(*   ticker   the entity column (ticker, or composite_figi)                *)
(*   date     the watermark column (ex_dividend_date, execution_date,      *)
(*            date, filing_date, modified_date)                            *)
(*   key2     the remaining natural-key columns (cash_amount; split_from   *)
(*            and split_to; type and new_ticker; fiscal_year and           *)
(*            fiscal_period)                                               *)
(*   payload  every column outside the natural key                         *)
(* A date value is tagged with its representation: "str" is the vendor's   *)
(* "YYYY-MM-DD" text, "ts" a pandas Timestamp, "none" a missing column.    *)
(***************************************************************************)
EXTENDS Integers, Sequences, FiniteSets, TLC

\* ------------------------------------------------------------------ bounds
\* number of runs of the script in one behaviour
MaxRuns == 3
\* number of rows the vendor returns in one behaviour, over all its runs
MaxRows == 3

\* number of processes of the script started in a behaviour of SpecConcurrent
\* (at the same time) and of SpecWatermark (one after the other)
MaxProcesses == 2

\* number of pages the vendor's IPO endpoint has in a behaviour of SpecPages
MaxPages == 101

\* length of the entity list in a behaviour of SpecBatches
MaxEntities == 201

\* number of days from start_date to end_date in a behaviour of SpecDownload
MaxDays == 4

\* ------------------------------------------------------- program constants
lookback_days == 7
batch_size == 100
max_pages == 100

\* ------------------------------------------------------------ value spaces
Domains == {"dividends", "splits", "ipos", "ticker_events", "fundamentals"}
ListDomains == {"dividends", "splits"}

\* all_tickers_list / figis / ticker_list: the de-duplicated entity list
all_tickers_list == <<"AAPL", "MSFT">>
Tickers == {all_tickers_list[i] : i \in 1..Len(all_tickers_list)}

Str(y, m, d) == [t |-> "str", y |-> y, m |-> m, d |-> d]
NoDate == [t |-> "none", y |-> 0, m |-> 0, d |-> 0]
\* the dates the vendor reports
VendorDates == {Str(2024, 4, 2), Str(2024, 4, 10)}
Key2s == {"k1"}
Payloads == {"p1", "p2"}

Runs == {1, 2}

\* -------------------------------------------------------------- DataFrames
None == [isNone |-> TRUE, rows |-> <<>>]
DataFrame(rows) == [isNone |-> FALSE, rows |-> rows]
empty(df) == df.rows = <<>>

\* pd.to_datetime on one value: text becomes a Timestamp, a Timestamp stays
to_datetime(x) == IF x.t = "str" THEN [x EXCEPT !.t = "ts"] ELSE x
\* Timestamp.strftime("%Y-%m-%d")
strftime(x) == [x EXCEPT !.t = "str"]

IsLeap(y) == (y % 4 = 0 /\ y % 100 # 0) \/ y % 400 = 0
DaysInMonth(y, m) ==
    IF m = 2 THEN (IF IsLeap(y) THEN 29 ELSE 28)
    ELSE IF m \in {4, 6, 9, 11} THEN 30 ELSE 31

\* Timestamp - timedelta(days=n)
RECURSIVE minus_days(_, _)
minus_days(x, n) ==
    IF n = 0 THEN x
    ELSE IF x.d > 1 THEN minus_days([x EXCEPT !.d = x.d - 1], n - 1)
    ELSE IF x.m > 1
         THEN minus_days([x EXCEPT !.m = x.m - 1,
                                   !.d = DaysInMonth(x.y, x.m - 1)], n - 1)
    ELSE minus_days([x EXCEPT !.y = x.y - 1, !.m = 12, !.d = 31], n - 1)

\* order of two dates of the same calendar
DateLE(a, b) ==
    \/ a.y < b.y
    \/ a.y = b.y /\ a.m < b.m
    \/ a.y = b.y /\ a.m = b.m /\ a.d <= b.d

\* Series.max() of the watermark column after pd.to_datetime
max_date(rows) ==
    LET ds == {to_datetime(rows[i].date) : i \in 1..Len(rows)}
    IN CHOOSE x \in ds : \A z \in ds : DateLE(z, x)

\* df[col] = pd.to_datetime(df[col]) on the watermark column
convert_dates(rows) ==
    [i \in 1..Len(rows) |-> [rows[i] EXCEPT !.date = to_datetime(rows[i].date)]]

\* text that is no date
BadDate == [t |-> "str", y |-> 2024, m |-> 13, d |-> 45]
\* pd.to_datetime accepts the value: a Timestamp, or text that is a date of
\* the calendar
parses(x) ==
    x.t = "str" => (x.m \in 1..12 /\ x.d \in 1..DaysInMonth(x.y, x.m))
\* pd.to_datetime on the watermark column does not raise
CanConvert(rows) == \A i \in 1..Len(rows) : parses(rows[i].date)

\* the natural-key tuple of a row under the column list subset
KeyOf(row, subset) == [i \in 1..Len(subset) |-> row[subset[i]]]

\* drop_duplicates with keep="last"
drop_duplicates_keep_last(rows, subset) ==
    LET n == Len(rows)
        F[i \in 0..n] ==
          IF i = 0 THEN <<>>
          ELSE IF \E j \in (i + 1)..n :
                    KeyOf(rows[j], subset) = KeyOf(rows[i], subset)
               THEN F[i - 1]
               ELSE Append(F[i - 1], rows[i])
    IN F[n]

\* DataFrame.drop_duplicates(subset=...): pandas keeps the FIRST row of
\* every group of equal key tuples (keep="first" is the default)
drop_duplicates(rows, subset) ==
    LET F[i \in 0..Len(rows)] ==
          IF i = 0 THEN <<>>
          ELSE IF \E j \in 1..(i - 1) :
                    KeyOf(rows[j], subset) = KeyOf(rows[i], subset)
               THEN F[i - 1]
               ELSE Append(F[i - 1], rows[i])
    IN F[Len(rows)]

\* pd.concat([a, b])
concat(a, b) == a \o b

\* the subset= argument of the domain's drop_duplicates call
subset_columns == <<"ticker", "date", "key2">>

VARIABLES
    domain,       \* the script this behaviour runs
    hasModified,  \* the vendor's IPO rows carry a modified_date column
    snapshot,     \* the persisted file: [exists, rows]
    runs,         \* number of runs started so far
    pc,           \* pc[r]: position of run r in the script
    existing,     \* existing_dividends / existing_splits / ... of run r
    path,         \* "incremental" or "full": the branch run r took
    from_date,    \* the from_date of run r, NoDate when there is none
    idx,          \* position of run r in the entity list
    fetched,      \* new_dividend_records / dividend_history / ... of run r
    page_count,   \* page_count of the IPO pagination loop
    cursor,       \* pagination_cursor is set
    result,       \* the DataFrame (or None) run r returned
    wrote,        \* run r called to_parquet
    hadFailure,   \* a vendor call of run r raised
    attempted,    \* the entities run r sent a vendor request for
    lastBound,    \* the lower bound sent with the last vendor request of run r
    startSnap,    \* the persisted file as it was when run r read it
    prevResult,   \* whether the run before completed, and what it returned
    served,       \* number of rows the vendor has returned so far
    readFailed,   \* pd.read_parquet of run r raised
    lastWriter,   \* the run whose to_parquet was the last one, 0 when none
    vendorPages,  \* number of pages the IPO endpoint has (SpecPages)
    entity_list,  \* the entity list of the batch loop (SpecBatches)
    bi,           \* position of the batch loop in ticker_batches
    bj,           \* position of the inner loop in the batch
    visited,      \* the entities the batch loop sent a request for, in order
    responses,    \* the answers of get_ticker_events to run r, in order
    valid_category,  \* asset_class and data_type are in DATA_CATEGORIES
    zero_pad,     \* strftime of this platform writes %Y with four digits
    start_date,   \* start_date of the download_date_range call
    end_date,     \* end_date of the call
    current_date, \* current_date of its loop
    all_files,    \* all_files, in insertion order: <<[date_str, files]>>
    drpc,         \* position of the call
    requested,    \* the download_data calls: <<[date_str, listed]>>
    downloaded    \* number of files download_file has stored

vars == <<domain, hasModified, snapshot, runs, pc, existing, path, from_date,
          idx, fetched, page_count, cursor, result, wrote, hadFailure,
          attempted, lastBound, startSnap, prevResult, served, readFailed,
          lastWriter, vendorPages, entity_list, bi, bj, visited, responses,
          valid_category, zero_pad, start_date, end_date, current_date,
          all_files, drpc, requested, downloaded>>

\* the variables of the batch loop
batchvars == <<entity_list, bi, bj, visited>>

\* the variables of a download_date_range call
rangevars == <<valid_category, zero_pad, start_date, end_date, current_date,
               all_files, drpc, requested, downloaded>>

\* the variables of the update scripts
pipelinevars == <<domain, hasModified, snapshot, runs, pc, existing, path,
                  from_date, idx, fetched, page_count, cursor, result, wrote,
                  hadFailure, attempted, lastBound, startSnap, prevResult,
                  served, readFailed, lastWriter, vendorPages, responses>>

NoFile == [exists |-> FALSE, rows |-> <<>>]
File(rows) == [exists |-> TRUE, rows |-> rows]

\* the variables of a run before its first step
InitRun ==
    /\ runs = 0
    /\ pc = [r \in Runs |-> "idle"]
    /\ existing = [r \in Runs |-> None]
    /\ path = [r \in Runs |-> "none"]
    /\ from_date = [r \in Runs |-> NoDate]
    /\ idx = [r \in Runs |-> 1]
    /\ fetched = [r \in Runs |-> <<>>]
    /\ page_count = [r \in Runs |-> 0]
    /\ cursor = [r \in Runs |-> FALSE]
    /\ result = [r \in Runs |-> None]
    /\ wrote = [r \in Runs |-> FALSE]
    /\ hadFailure = [r \in Runs |-> FALSE]
    /\ attempted = [r \in Runs |-> {}]
    /\ lastBound = [r \in Runs |-> NoDate]
    /\ startSnap = [r \in Runs |-> NoFile]
    /\ prevResult = [done |-> FALSE, df |-> None]
    /\ served = 0
    /\ readFailed = [r \in Runs |-> FALSE]
    /\ lastWriter = 0
    /\ responses = [r \in Runs |-> <<>>]

\* a date object
Date(y, m, d) == [y |-> y, m |-> m, d |-> d]

\* download_date_range is not called
NoDownload ==
    /\ valid_category = TRUE
    /\ zero_pad = TRUE
    /\ start_date = Date(2024, 1, 1)
    /\ end_date = Date(2024, 1, 1)
    /\ current_date = Date(2024, 1, 1)
    /\ all_files = <<>>
    /\ drpc = "idle"
    /\ requested = <<>>
    /\ downloaded = 0

\* the batch loop at its start, over the list list
InitBatchLoop(list) ==
    /\ entity_list = list
    /\ bi = 1
    /\ bj = 1
    /\ visited = <<>>

Init ==
    /\ domain \in Domains
    /\ hasModified \in BOOLEAN
    /\ (domain # "ipos" => hasModified)
    /\ snapshot = NoFile
    /\ InitRun
    /\ NoDownload
    /\ vendorPages = 0
    /\ InitBatchLoop(<<>>)


\* ------------------------------------------------------------- the vendor
Row(tk, d, k, p) == [ticker |-> tk, date |-> d, key2 |-> k, payload |-> p]

\* a vendor that pays no attention to the lower bound of the request
VendorRowsIgnoringBound(tk, bound) ==
    {Row(tk, d, k, p) : d \in VendorDates, k \in Key2s, p \in Payloads}

\* the rows the vendor may return for one entity; a request that carries a
\* lower bound (ex_dividend_date_gte, execution_date_gte, modified_date.gte)
\* is answered with rows on or after it only
VendorRows(tk, bound) ==
    {Row(tk, d, k, p) : d \in {x \in VendorDates :
                                  bound.t = "none" \/ DateLE(bound, x)},
                        k \in Key2s, p \in Payloads}

\* the rows of the IPO endpoint: any ticker; no modified_date column when the
\* vendor's schema has none
IpoRows(bound) ==
    IF hasModified
    THEN UNION {VendorRows(tk, bound) : tk \in Tickers}
    ELSE {Row(tk, NoDate, k, p) : tk \in Tickers, k \in Key2s, p \in Payloads}

SeqsUpTo(S, n) == UNION {[1..k -> S] : k \in 0..n}

\* how many more rows the vendor may return
Budget(r) == MaxRows - served

HasSnapshot(df) == ~df.isNone /\ ~empty(df)

\* ------------------------------------------------------ reading the file
\* no run of the script is under way: none started yet, the last one
\* returned, or it ended with an uncaught exception or was killed
RunOver == {"idle", "done", "failed", "value_error", "terminated"}

\* "Check if we have existing ... data": os.path.exists, pd.read_parquet
ReadSnapshot(r) ==
    /\ pc[r] \in RunOver
    /\ runs < MaxRuns
    /\ runs' = runs + 1
    /\ existing' = [existing EXCEPT ![r] =
                      IF snapshot.exists THEN DataFrame(snapshot.rows)
                      ELSE None]
    /\ startSnap' = [startSnap EXCEPT ![r] = snapshot]
    /\ prevResult' = IF pc[r] = "done"
                     THEN [done |-> TRUE, df |-> result[r]]
                     ELSE [done |-> FALSE, df |-> None]
    /\ pc' = [pc EXCEPT ![r] = "determine"]
    /\ path' = [path EXCEPT ![r] = "none"]
    /\ from_date' = [from_date EXCEPT ![r] = NoDate]
    /\ idx' = [idx EXCEPT ![r] = 1]
    /\ fetched' = [fetched EXCEPT ![r] = <<>>]
    /\ page_count' = [page_count EXCEPT ![r] = 0]
    /\ cursor' = [cursor EXCEPT ![r] = FALSE]
    /\ result' = [result EXCEPT ![r] = None]
    /\ wrote' = [wrote EXCEPT ![r] = FALSE]
    /\ hadFailure' = [hadFailure EXCEPT ![r] = FALSE]
    /\ attempted' = [attempted EXCEPT ![r] = {}]
    /\ lastBound' = [lastBound EXCEPT ![r] = NoDate]
    /\ readFailed' = [readFailed EXCEPT ![r] = FALSE]
    /\ responses' = [responses EXCEPT ![r] = <<>>]
    /\ UNCHANGED <<rangevars,
                   batchvars, vendorPages, lastWriter, domain, hasModified,
                   snapshot, served>>

\* ------------------------------------------------- "Determine what to update"
\* a buffer that is one day short
compute_from_date_short(rows) ==
    strftime(minus_days(max_date(rows), lookback_days - 1))

\* latest date of the watermark column minus the 7-day buffer, as text
compute_from_date(rows) ==
    strftime(minus_days(max_date(rows), lookback_days))

\* a script that takes the initial import whatever the file holds
DetermineUpdateAlwaysFull(r) ==
    /\ pc[r] = "determine"
    /\ domain \in ListDomains \cup {"ticker_events"}
    /\ path' = [path EXCEPT ![r] = "full"]
    /\ from_date' = [from_date EXCEPT ![r] = NoDate]
    /\ pc' = [pc EXCEPT ![r] = "fetch"]
    /\ UNCHANGED <<rangevars,
                   responses, batchvars, vendorPages, readFailed, lastWriter,
                   domain, hasModified, snapshot, runs, existing, idx, fetched,
                   page_count, cursor, result, wrote, hadFailure, attempted,
                   lastBound, startSnap, prevResult, served>>

\* dividends, splits and ticker events: the if of the script
DetermineUpdate(r) ==
    /\ pc[r] = "determine"
    /\ domain \in ListDomains \cup {"ticker_events"}
    /\ HasSnapshot(existing[r]) => CanConvert(existing[r].rows)
    /\ IF HasSnapshot(existing[r])
       THEN /\ path' = [path EXCEPT ![r] = "incremental"]
            /\ from_date' = [from_date EXCEPT ![r] =
                               compute_from_date(existing[r].rows)]
       ELSE /\ path' = [path EXCEPT ![r] = "full"]
            /\ from_date' = [from_date EXCEPT ![r] = NoDate]
    /\ pc' = [pc EXCEPT ![r] = "fetch"]
    /\ UNCHANGED <<rangevars,
                   responses, batchvars, vendorPages, readFailed, lastWriter,
                   domain, hasModified, snapshot, runs, existing, idx, fetched,
                   page_count, cursor, result, wrote, hadFailure, attempted,
                   lastBound, startSnap, prevResult, served>>

\* IPOs: a snapshot without a modified_date column is dropped (existing_ipos
\* = None) and the run falls through to the initial import
IpoDetermineUpdate(r) ==
    /\ pc[r] = "determine"
    /\ domain = "ipos"
    /\ HasSnapshot(existing[r]) => CanConvert(existing[r].rows)
    /\ IF HasSnapshot(existing[r]) /\ existing[r].rows[1].date.t # "none"
       THEN /\ path' = [path EXCEPT ![r] = "incremental"]
            /\ from_date' = [from_date EXCEPT ![r] =
                               compute_from_date(existing[r].rows)]
            /\ UNCHANGED existing
       ELSE /\ path' = [path EXCEPT ![r] = "full"]
            /\ from_date' = [from_date EXCEPT ![r] = NoDate]
            /\ existing' = [existing EXCEPT ![r] =
                              IF HasSnapshot(existing[r]) THEN None
                              ELSE existing[r]]
    /\ pc' = [pc EXCEPT ![r] = "ipo_page"]
    /\ UNCHANGED <<rangevars,
                   responses, batchvars, vendorPages, readFailed, lastWriter,
                   domain, hasModified, snapshot, runs, idx, fetched,
                   page_count, cursor, result, wrote, hadFailure, attempted,
                   lastBound, startSnap, prevResult, served>>

\* fundamentals: no watermark; the tickers of the snapshot are "processed"
processed(r) ==
    IF HasSnapshot(existing[r])
    THEN {existing[r].rows[i].ticker : i \in 1..Len(existing[r].rows)}
    ELSE {}

FundamentalsDetermine(r) ==
    /\ pc[r] = "determine"
    /\ domain = "fundamentals"
    /\ path' = [path EXCEPT ![r] =
                  IF HasSnapshot(existing[r]) THEN "incremental" ELSE "full"]
    /\ pc' = [pc EXCEPT ![r] = "fetch"]
    /\ UNCHANGED <<rangevars,
                   responses, batchvars, vendorPages, readFailed, lastWriter,
                   domain, hasModified, snapshot, runs, existing, from_date,
                   idx, fetched, page_count, cursor, result, wrote,
                   hadFailure, attempted, lastBound, startSnap, prevResult,
                   served>>


\* ---------------------------------------- the per-ticker loop (list domains)
InLoop(r) == pc[r] = "fetch" /\ idx[r] <= Len(all_tickers_list)
ticker(r) == all_tickers_list[idx[r]]

\* list_dividends / list_splits yields one more row, which is appended
ListYield(r) ==
    /\ InLoop(r)
    /\ domain \in ListDomains
    /\ Budget(r) > 0
    /\ \E div \in VendorRows(ticker(r), from_date[r]) :
          fetched' = [fetched EXCEPT ![r] = Append(fetched[r], div)]
    /\ attempted' = [attempted EXCEPT ![r] = attempted[r] \cup {ticker(r)}]
    /\ lastBound' = [lastBound EXCEPT ![r] = from_date[r]]
    /\ served' = served + 1
    /\ UNCHANGED <<rangevars,
                   responses, batchvars, vendorPages, readFailed, lastWriter,
                   domain, hasModified, snapshot, runs, pc, existing, path,
                   from_date, idx, page_count, cursor, result, wrote,
                   hadFailure, startSnap, prevResult>>

\* a loop that saves what it has collected after every ticker
ListExhaustedCheckpoints(r) ==
    /\ InLoop(r)
    /\ domain \in ListDomains
    /\ idx' = [idx EXCEPT ![r] = idx[r] + 1]
    /\ attempted' = [attempted EXCEPT ![r] = attempted[r] \cup {ticker(r)}]
    /\ lastBound' = [lastBound EXCEPT ![r] = from_date[r]]
    /\ snapshot' = IF fetched[r] # <<>>
                   THEN File(concat(existing[r].rows, fetched[r]))
                   ELSE snapshot
    /\ UNCHANGED <<rangevars,
                   responses, batchvars, vendorPages, readFailed, lastWriter,
                   domain, hasModified, runs, pc, existing, path,
                   from_date, fetched, page_count, cursor, result, wrote,
                   hadFailure, startSnap, prevResult, served>>

\* the iterator is exhausted: next ticker
ListExhausted(r) ==
    /\ InLoop(r)
    /\ domain \in ListDomains
    /\ idx' = [idx EXCEPT ![r] = idx[r] + 1]
    /\ attempted' = [attempted EXCEPT ![r] = attempted[r] \cup {ticker(r)}]
    /\ lastBound' = [lastBound EXCEPT ![r] = from_date[r]]
    /\ UNCHANGED <<rangevars,
                   responses, batchvars, vendorPages, readFailed, lastWriter,
                   domain, hasModified, snapshot, runs, pc, existing, path,
                   from_date, fetched, page_count, cursor, result, wrote,
                   hadFailure, startSnap, prevResult, served>>

\* the loop without its try/except: the exception ends the run
ListRaiseAborts(r) ==
    /\ InLoop(r)
    /\ domain \in ListDomains
    /\ pc' = [pc EXCEPT ![r] = "failed"]
    /\ hadFailure' = [hadFailure EXCEPT ![r] = TRUE]
    /\ attempted' = [attempted EXCEPT ![r] = attempted[r] \cup {ticker(r)}]
    /\ lastBound' = [lastBound EXCEPT ![r] = from_date[r]]
    /\ UNCHANGED <<rangevars,
                   responses, batchvars, vendorPages, readFailed, lastWriter,
                   domain, hasModified, snapshot, runs, idx, existing, path,
                   from_date, fetched, page_count, cursor, result, wrote,
                   startSnap, prevResult, served>>

\* the vendor call raises: except Exception: print(e); next ticker.  The
\* rows appended before the exception stay in the list.
ListRaise(r) ==
    /\ InLoop(r)
    /\ domain \in ListDomains
    /\ idx' = [idx EXCEPT ![r] = idx[r] + 1]
    /\ hadFailure' = [hadFailure EXCEPT ![r] = TRUE]
    /\ attempted' = [attempted EXCEPT ![r] = attempted[r] \cup {ticker(r)}]
    /\ lastBound' = [lastBound EXCEPT ![r] = from_date[r]]
    /\ UNCHANGED <<rangevars,
                   responses, batchvars, vendorPages, readFailed, lastWriter,
                   domain, hasModified, snapshot, runs, pc, existing, path,
                   from_date, fetched, page_count, cursor, result, wrote,
                   startSnap, prevResult, served>>

\* ------------------------------------------------ the per-FIGI loop (events)
\* a filter that looks at the date only
is_new_event_date_only(r, row) ==
    DateLE(to_datetime(from_date[r]), to_datetime(row.date))

\* "Check if this is a new event": the client-side filter of the update branch
is_new_event(r, row) ==
    \/ DateLE(to_datetime(from_date[r]), to_datetime(row.date))
    \/ ticker(r) \notin processed(r)

\* get_ticker_events answers with all events of the FIGI; the update branch
\* keeps the new ones, the initial branch keeps all
EventsFetch(r) ==
    /\ InLoop(r)
    /\ domain = "ticker_events"
    /\ \E events \in SeqsUpTo(VendorRows(ticker(r), NoDate), Budget(r)) :
          LET collection ==
                IF path[r] = "incremental"
                THEN SelectSeq(events, LAMBDA row : is_new_event(r, row))
                ELSE events
          IN /\ fetched' = [fetched EXCEPT ![r] = fetched[r] \o collection]
             /\ served' = served + Len(events)
             /\ responses' = [responses EXCEPT ![r] =
                                Append(responses[r], events)]
    /\ idx' = [idx EXCEPT ![r] = idx[r] + 1]
    /\ attempted' = [attempted EXCEPT ![r] = attempted[r] \cup {ticker(r)}]
    /\ lastBound' = [lastBound EXCEPT ![r] = NoDate]
    /\ UNCHANGED <<rangevars, batchvars, vendorPages, readFailed, lastWriter,
                   domain, hasModified, snapshot, runs, pc, existing, path,
                   from_date, page_count, cursor, result, wrote, hadFailure,
                   startSnap, prevResult>>

\* the call (or the processing of its rows) raises: logger.error; the
\* collection of this FIGI is never added
EventsRaise(r) ==
    /\ InLoop(r)
    /\ domain = "ticker_events"
    /\ idx' = [idx EXCEPT ![r] = idx[r] + 1]
    /\ hadFailure' = [hadFailure EXCEPT ![r] = TRUE]
    /\ attempted' = [attempted EXCEPT ![r] = attempted[r] \cup {ticker(r)}]
    /\ lastBound' = [lastBound EXCEPT ![r] = NoDate]
    /\ UNCHANGED <<rangevars,
                   responses, batchvars, vendorPages, readFailed, lastWriter,
                   domain, hasModified, snapshot, runs, pc, existing, path,
                   from_date, fetched, page_count, cursor, result, wrote,
                   startSnap, prevResult, served>>

\* -------------------------------------- the per-ticker loop (fundamentals)
\* if ticker in processed: continue
FundamentalsSkip(r) ==
    /\ InLoop(r)
    /\ domain = "fundamentals"
    /\ ticker(r) \in processed(r)
    /\ idx' = [idx EXCEPT ![r] = idx[r] + 1]
    /\ UNCHANGED <<rangevars,
                   responses, batchvars, vendorPages, readFailed, lastWriter,
                   domain, hasModified, snapshot, runs, pc, existing, path,
                   from_date, fetched, page_count, cursor, result, wrote,
                   hadFailure, attempted, lastBound, startSnap, prevResult,
                   served>>

\* a loop without its "if ticker in processed: continue"
FundamentalsYieldAnyTicker(r) ==
    /\ InLoop(r)
    /\ domain = "fundamentals"
    /\ Budget(r) > 0
    /\ \E fin \in VendorRows(ticker(r), NoDate) :
          fetched' = [fetched EXCEPT ![r] = Append(fetched[r], fin)]
    /\ attempted' = [attempted EXCEPT ![r] = attempted[r] \cup {ticker(r)}]
    /\ lastBound' = [lastBound EXCEPT ![r] = NoDate]
    /\ served' = served + 1
    /\ UNCHANGED <<rangevars,
                   responses, batchvars, vendorPages, readFailed, lastWriter,
                   domain, hasModified, snapshot, runs, pc, existing, path,
                   from_date, idx, page_count, cursor, result, wrote,
                   hadFailure, startSnap, prevResult>>

\* list_stock_financials yields one more filing: {"ticker": ticker, **fin}
FundamentalsYield(r) ==
    /\ InLoop(r)
    /\ domain = "fundamentals"
    /\ ticker(r) \notin processed(r)
    /\ Budget(r) > 0
    /\ \E fin \in VendorRows(ticker(r), NoDate) :
          fetched' = [fetched EXCEPT ![r] = Append(fetched[r], fin)]
    /\ attempted' = [attempted EXCEPT ![r] = attempted[r] \cup {ticker(r)}]
    /\ lastBound' = [lastBound EXCEPT ![r] = NoDate]
    /\ served' = served + 1
    /\ UNCHANGED <<rangevars,
                   responses, batchvars, vendorPages, readFailed, lastWriter,
                   domain, hasModified, snapshot, runs, pc, existing, path,
                   from_date, idx, page_count, cursor, result, wrote,
                   hadFailure, startSnap, prevResult>>

FundamentalsExhausted(r) ==
    /\ InLoop(r)
    /\ domain = "fundamentals"
    /\ ticker(r) \notin processed(r)
    /\ idx' = [idx EXCEPT ![r] = idx[r] + 1]
    /\ attempted' = [attempted EXCEPT ![r] = attempted[r] \cup {ticker(r)}]
    /\ lastBound' = [lastBound EXCEPT ![r] = NoDate]
    /\ UNCHANGED <<rangevars,
                   responses, batchvars, vendorPages, readFailed, lastWriter,
                   domain, hasModified, snapshot, runs, pc, existing, path,
                   from_date, fetched, page_count, cursor, result, wrote,
                   hadFailure, startSnap, prevResult, served>>

\* except Exception as e: print(e)
FundamentalsRaise(r) ==
    /\ InLoop(r)
    /\ domain = "fundamentals"
    /\ ticker(r) \notin processed(r)
    /\ idx' = [idx EXCEPT ![r] = idx[r] + 1]
    /\ hadFailure' = [hadFailure EXCEPT ![r] = TRUE]
    /\ attempted' = [attempted EXCEPT ![r] = attempted[r] \cup {ticker(r)}]
    /\ lastBound' = [lastBound EXCEPT ![r] = NoDate]
    /\ UNCHANGED <<rangevars,
                   responses, batchvars, vendorPages, readFailed, lastWriter,
                   domain, hasModified, snapshot, runs, pc, existing, path,
                   from_date, fetched, page_count, cursor, result, wrote,
                   startSnap, prevResult, served>>


\* ------------------------------------------------- the IPO pagination loop
\* while True: the loop without its safety limit
InPagesUnbounded(r) == pc[r] = "ipo_page" /\ domain = "ipos"

\* while page_count < max_pages
InPages(r) ==
    pc[r] = "ipo_page" /\ domain = "ipos" /\ page_count[r] < max_pages

\* a 200 response with results: the rows are appended; the loop goes on only
\* when next_url is there and carries "cursor="
IpoPageResults(r) ==
    /\ InPages(r)
    /\ Budget(r) > 0
    /\ page_count' = [page_count EXCEPT ![r] = page_count[r] + 1]
    /\ \E results \in SeqsUpTo(IpoRows(from_date[r]), Budget(r)) \ {<<>>} :
          /\ fetched' = [fetched EXCEPT ![r] = fetched[r] \o results]
          /\ served' = served + Len(results)
    /\ \E next_url \in {"absent", "with_cursor", "without_cursor"} :
          IF next_url = "with_cursor"
          THEN /\ cursor' = [cursor EXCEPT ![r] = TRUE]
               /\ UNCHANGED pc
          ELSE /\ pc' = [pc EXCEPT ![r] = "ipo_done"]
               /\ UNCHANGED cursor
    /\ lastBound' = [lastBound EXCEPT ![r] = from_date[r]]
    /\ UNCHANGED <<rangevars,
                   responses, batchvars, vendorPages, readFailed, lastWriter,
                   domain, hasModified, snapshot, runs, existing, path,
                   from_date, idx, result, wrote, hadFailure, attempted,
                   startSnap, prevResult>>

\* get_ipos returns None (status is not 200) or a response without results:
\* break
IpoPageEmpty(r) ==
    /\ InPages(r)
    /\ page_count' = [page_count EXCEPT ![r] = page_count[r] + 1]
    /\ pc' = [pc EXCEPT ![r] = "ipo_done"]
    /\ lastBound' = [lastBound EXCEPT ![r] = from_date[r]]
    /\ UNCHANGED <<rangevars,
                   responses, batchvars, vendorPages, readFailed, lastWriter,
                   domain, hasModified, snapshot, runs, existing, path,
                   from_date, idx, fetched, cursor, result, wrote, hadFailure,
                   attempted, startSnap, prevResult, served>>

\* requests.get raises.  The update branch prints the exception and goes on
\* with the rows collected so far; the initial import re-raises (raise e) and
\* the run ends without a result.
IpoPageRaise(r) ==
    /\ InPages(r)
    /\ page_count' = [page_count EXCEPT ![r] = page_count[r] + 1]
    /\ hadFailure' = [hadFailure EXCEPT ![r] = TRUE]
    /\ pc' = [pc EXCEPT ![r] =
                IF path[r] = "incremental" THEN "ipo_done" ELSE "failed"]
    /\ lastBound' = [lastBound EXCEPT ![r] = from_date[r]]
    /\ UNCHANGED <<rangevars,
                   responses, batchvars, vendorPages, readFailed, lastWriter,
                   domain, hasModified, snapshot, runs, existing, path,
                   from_date, idx, fetched, cursor, result, wrote, attempted,
                   startSnap, prevResult, served>>

\* ------------------------------------------------------ merge, save, return
\* what a run returns and whether it calls to_parquet with it
Outcome(df, write) == [df |-> df, write |-> write]

\* a save that reads the file again and merges the DataFrame into it
ReturnMergesFile(r, out) ==
    /\ result' = [result EXCEPT ![r] = out.df]
    /\ wrote' = [wrote EXCEPT ![r] = out.write]
    /\ snapshot' = IF out.write
                   THEN File(drop_duplicates(concat(snapshot.rows, out.df.rows),
                                             subset_columns))
                   ELSE snapshot
    /\ lastWriter' = IF out.write THEN r ELSE lastWriter
    /\ pc' = [pc EXCEPT ![r] = "done"]
    /\ UNCHANGED <<rangevars, responses,
                   batchvars, vendorPages, readFailed, domain, hasModified,
                   runs, existing, path, from_date, idx, fetched, page_count,
                   cursor, hadFailure, attempted, lastBound, startSnap,
                   prevResult, served>>

\* the end of the script: the DataFrame is saved (the file is replaced as a
\* whole) when the script saves, and returned
Return(r, out) ==
    /\ result' = [result EXCEPT ![r] = out.df]
    /\ wrote' = [wrote EXCEPT ![r] = out.write]
    /\ snapshot' = IF out.write THEN File(out.df.rows) ELSE snapshot
    /\ lastWriter' = IF out.write THEN r ELSE lastWriter
    /\ pc' = [pc EXCEPT ![r] = "done"]
    /\ UNCHANGED <<rangevars, responses,
                   batchvars, vendorPages, readFailed, domain, hasModified,
                   runs, existing, path, from_date, idx, fetched, page_count,
                   cursor, hadFailure, attempted, lastBound, startSnap,
                   prevResult, served>>

\* the update branch without its "if new_dividend_records" test: the merge
\* also runs on an empty fetch
update_dividend_history_always_merge(existing_dividends, branch, records) ==
    IF branch = "incremental"
    THEN Outcome(DataFrame(drop_duplicates(
                    concat(convert_dates(existing_dividends.rows),
                           convert_dates(records)),
                    subset_columns)), TRUE)
    ELSE Outcome(DataFrame(records), records # <<>>)

\* a merge that saves the fetched records alone
update_dividend_history_saves_new_only(existing_dividends, branch, records) ==
    IF branch = "incremental"
    THEN IF records # <<>>
         THEN Outcome(DataFrame(drop_duplicates(convert_dates(records),
                                                subset_columns)), TRUE)
         ELSE Outcome(existing_dividends, FALSE)
    ELSE Outcome(DataFrame(records), records # <<>>)

\* dividends / splits, after the loop
update_dividend_history(existing_dividends, branch, records) ==
    IF branch = "incremental"
    THEN IF records # <<>>
         THEN LET combined_df ==
                    drop_duplicates(
                        concat(convert_dates(existing_dividends.rows),
                               convert_dates(records)),
                        subset_columns)
              IN Outcome(DataFrame(combined_df), TRUE)
         ELSE Outcome(existing_dividends, FALSE)
    ELSE Outcome(DataFrame(records), records # <<>>)

\* an initial import that saves the frame even when it is empty
update_ticker_events_always_saves(existing_events, branch, event_history) ==
    IF branch = "incremental"
    THEN IF event_history # <<>>
         THEN Outcome(DataFrame(drop_duplicates(
                         concat(convert_dates(existing_events.rows),
                                convert_dates(event_history)),
                         subset_columns)), TRUE)
         ELSE Outcome(existing_events, FALSE)
    ELSE Outcome(DataFrame(drop_duplicates(convert_dates(event_history),
                                           subset_columns)), TRUE)

\* ticker events, after the loop: the initial branch converts the dates and
\* drops duplicates too
update_ticker_events(existing_events, branch, event_history) ==
    IF branch = "incremental"
    THEN IF event_history # <<>>
         THEN LET combined_df ==
                    drop_duplicates(
                        concat(convert_dates(existing_events.rows),
                               convert_dates(event_history)),
                        subset_columns)
              IN Outcome(DataFrame(combined_df), TRUE)
         ELSE Outcome(existing_events, FALSE)
    ELSE IF event_history # <<>>
         THEN Outcome(DataFrame(drop_duplicates(convert_dates(event_history),
                                                subset_columns)), TRUE)
         ELSE Outcome(DataFrame(<<>>), FALSE)

\* a merge that forgets the isin filter
not_isin_keeps_all(rows, updated_tickers) == rows

\* existing_ipos[~existing_ipos["ticker"].isin(updated_tickers)]
not_isin(rows, updated_tickers) ==
    SelectSeq(rows, LAMBDA row : row.ticker \notin updated_tickers)

\* IPOs, after the loop
update_ipo_history(existing_ipos, branch, records) ==
    IF branch = "incremental"
    THEN IF records # <<>>
         THEN LET new_records_df == convert_dates(records)
                  updated_tickers ==
                    {new_records_df[i].ticker : i \in 1..Len(new_records_df)}
                  existing_filtered ==
                    not_isin(convert_dates(existing_ipos.rows), updated_tickers)
              IN Outcome(DataFrame(concat(existing_filtered, new_records_df)),
                         TRUE)
         ELSE Outcome(existing_ipos, FALSE)
    ELSE IF records # <<>>
         THEN Outcome(DataFrame(convert_dates(records)), TRUE)
         ELSE Outcome(DataFrame(<<>>), FALSE)

\* fundamentals returning nothing when nothing was fetched
update_fundamental_history_returns_none(existing_fundamentals, fundamental_records) ==
    IF fundamental_records # <<>>
    THEN IF ~existing_fundamentals.isNone
         THEN Outcome(DataFrame(drop_duplicates(
                        concat(existing_fundamentals.rows, fundamental_records),
                        subset_columns)), TRUE)
         ELSE Outcome(DataFrame(fundamental_records), TRUE)
    ELSE Outcome(None, FALSE)

\* fundamentals, after the loop: no date conversion; a run without fetched
\* rows returns existing_fundamentals, which is None when there was no file
update_fundamental_history(existing_fundamentals, fundamental_records) ==
    IF fundamental_records # <<>>
    THEN IF ~existing_fundamentals.isNone
         THEN Outcome(DataFrame(drop_duplicates(
                        concat(existing_fundamentals.rows, fundamental_records),
                        subset_columns)), TRUE)
         ELSE Outcome(DataFrame(fundamental_records), TRUE)
    ELSE Outcome(existing_fundamentals, FALSE)

\* the merge placed inside the loop
LoopDoneEarly(r) == pc[r] = "fetch"

LoopDone(r) == pc[r] = "fetch" /\ idx[r] > Len(all_tickers_list)

ListReconcile(r) ==
    /\ LoopDone(r)
    /\ domain \in ListDomains
    /\ path[r] = "incremental" => CanConvert(fetched[r])
    /\ Return(r, update_dividend_history(existing[r], path[r], fetched[r]))

EventsReconcile(r) ==
    /\ LoopDone(r)
    /\ domain = "ticker_events"
    /\ CanConvert(fetched[r])
    /\ Return(r, update_ticker_events(existing[r], path[r], fetched[r]))

IpoReconcile(r) ==
    /\ domain = "ipos"
    /\ \/ pc[r] = "ipo_done"
       \/ pc[r] = "ipo_page" /\ page_count[r] >= max_pages
    /\ CanConvert(fetched[r])
    /\ Return(r, update_ipo_history(existing[r], path[r], fetched[r]))

FundamentalsReconcile(r) ==
    /\ LoopDone(r)
    /\ domain = "fundamentals"
    /\ Return(r, update_fundamental_history(existing[r], fetched[r]))

\* ----------------------------------------------------------- specification
Step(r) ==
    \/ ReadSnapshot(r)
    \/ DetermineUpdate(r)
    \/ IpoDetermineUpdate(r)
    \/ FundamentalsDetermine(r)
    \/ ListYield(r)
    \/ ListExhausted(r)
    \/ ListRaise(r)
    \/ EventsFetch(r)
    \/ EventsRaise(r)
    \/ FundamentalsSkip(r)
    \/ FundamentalsYield(r)
    \/ FundamentalsExhausted(r)
    \/ FundamentalsRaise(r)
    \/ IpoPageResults(r)
    \/ IpoPageEmpty(r)
    \/ IpoPageRaise(r)
    \/ ListReconcile(r)
    \/ EventsReconcile(r)
    \/ IpoReconcile(r)
    \/ FundamentalsReconcile(r)

\* the runs of one script follow each other
Next == Step(1)

Spec == Init /\ [][Next]_vars

\* ------------------------------------------- unreadable file, killed process
\* the read without its try/except: the exception ends the run
ReadSnapshotFailsAborts(r) ==
    /\ pc[r] \in RunOver
    /\ runs < MaxRuns
    /\ snapshot.exists
    /\ runs' = runs + 1
    /\ existing' = [existing EXCEPT ![r] = None]
    /\ readFailed' = [readFailed EXCEPT ![r] = TRUE]
    /\ responses' = [responses EXCEPT ![r] = <<>>]
    /\ startSnap' = [startSnap EXCEPT ![r] = snapshot]
    /\ prevResult' = [done |-> FALSE, df |-> None]
    /\ pc' = [pc EXCEPT ![r] = "failed"]
    /\ path' = [path EXCEPT ![r] = "none"]
    /\ from_date' = [from_date EXCEPT ![r] = NoDate]
    /\ idx' = [idx EXCEPT ![r] = 1]
    /\ fetched' = [fetched EXCEPT ![r] = <<>>]
    /\ page_count' = [page_count EXCEPT ![r] = 0]
    /\ cursor' = [cursor EXCEPT ![r] = FALSE]
    /\ result' = [result EXCEPT ![r] = None]
    /\ wrote' = [wrote EXCEPT ![r] = FALSE]
    /\ hadFailure' = [hadFailure EXCEPT ![r] = FALSE]
    /\ attempted' = [attempted EXCEPT ![r] = {}]
    /\ lastBound' = [lastBound EXCEPT ![r] = NoDate]
    /\ UNCHANGED <<rangevars,
                   batchvars, vendorPages, lastWriter, domain, hasModified,
                   snapshot, served>>

\* the file is there and pd.read_parquet raises: except Exception sets
\* existing_dividends = None and the script goes on
ReadSnapshotFails(r) ==
    /\ pc[r] \in RunOver
    /\ runs < MaxRuns
    /\ snapshot.exists
    /\ runs' = runs + 1
    /\ existing' = [existing EXCEPT ![r] = None]
    /\ readFailed' = [readFailed EXCEPT ![r] = TRUE]
    /\ responses' = [responses EXCEPT ![r] = <<>>]
    /\ startSnap' = [startSnap EXCEPT ![r] = snapshot]
    /\ prevResult' = IF pc[r] = "done"
                     THEN [done |-> TRUE, df |-> result[r]]
                     ELSE [done |-> FALSE, df |-> None]
    /\ pc' = [pc EXCEPT ![r] = "determine"]
    /\ path' = [path EXCEPT ![r] = "none"]
    /\ from_date' = [from_date EXCEPT ![r] = NoDate]
    /\ idx' = [idx EXCEPT ![r] = 1]
    /\ fetched' = [fetched EXCEPT ![r] = <<>>]
    /\ page_count' = [page_count EXCEPT ![r] = 0]
    /\ cursor' = [cursor EXCEPT ![r] = FALSE]
    /\ result' = [result EXCEPT ![r] = None]
    /\ wrote' = [wrote EXCEPT ![r] = FALSE]
    /\ hadFailure' = [hadFailure EXCEPT ![r] = FALSE]
    /\ attempted' = [attempted EXCEPT ![r] = {}]
    /\ lastBound' = [lastBound EXCEPT ![r] = NoDate]
    /\ UNCHANGED <<rangevars,
                   batchvars, vendorPages, lastWriter, domain, hasModified,
                   snapshot, served>>

\* the process is killed between the read of the file and the end of the
\* script: its variables are gone, and nothing of the run is left but what it
\* wrote to the file
Terminate(r) ==
    /\ pc[r] \in {"determine", "fetch", "ipo_page", "ipo_done"}
    /\ pc' = [pc EXCEPT ![r] = "terminated"]
    /\ existing' = [existing EXCEPT ![r] = None]
    /\ path' = [path EXCEPT ![r] = "none"]
    /\ from_date' = [from_date EXCEPT ![r] = NoDate]
    /\ idx' = [idx EXCEPT ![r] = 1]
    /\ fetched' = [fetched EXCEPT ![r] = <<>>]
    /\ page_count' = [page_count EXCEPT ![r] = 0]
    /\ cursor' = [cursor EXCEPT ![r] = FALSE]
    /\ hadFailure' = [hadFailure EXCEPT ![r] = FALSE]
    /\ attempted' = [attempted EXCEPT ![r] = {}]
    /\ lastBound' = [lastBound EXCEPT ![r] = NoDate]
    /\ responses' = [responses EXCEPT ![r] = <<>>]
    /\ UNCHANGED <<rangevars,
                   batchvars, vendorPages, readFailed, lastWriter, domain,
                   hasModified, snapshot, runs, result, wrote, startSnap,
                   prevResult, served>>

NextFaults ==
    \/ Step(1)
    \/ ReadSnapshotFails(1)

\* the runs of one script, with reads of the file that fail among them
SpecFaults == Init /\ [][NextFaults]_vars

NextKilled ==
    \/ Step(1)
    \/ Terminate(1)

\* the runs of one script, some of them killed before their end
SpecKilled == Init /\ [][NextKilled]_vars


\* ------------------------------------------------ text that is not a date
\* a record whose watermark column holds text that is no date
BadRow(tk) == Row(tk, BadDate, "k1", "p1")

\* the vendor may return such records, and the file may hold one that another
\* writer left there
InitDates ==
    /\ domain \in Domains
    /\ hasModified \in BOOLEAN
    /\ (domain # "ipos" => hasModified)
    /\ snapshot \in {NoFile, File(<<BadRow("AAPL")>>)}
    /\ InitRun
    /\ NoDownload
    /\ vendorPages = 0
    /\ InitBatchLoop(<<>>)

\* list_dividends / list_splits yields a record with a malformed date
ListYieldMalformed(r) ==
    /\ InLoop(r)
    /\ domain \in ListDomains
    /\ Budget(r) > 0
    /\ fetched' = [fetched EXCEPT ![r] = Append(fetched[r], BadRow(ticker(r)))]
    /\ attempted' = [attempted EXCEPT ![r] = attempted[r] \cup {ticker(r)}]
    /\ lastBound' = [lastBound EXCEPT ![r] = from_date[r]]
    /\ served' = served + 1
    /\ UNCHANGED <<rangevars,
                   responses, batchvars, vendorPages, readFailed, lastWriter,
                   domain, hasModified, snapshot, runs, pc, existing, path,
                   from_date, idx, page_count, cursor, result, wrote,
                   hadFailure, startSnap, prevResult>>

\* list_stock_financials yields a filing with a malformed filing_date
FundamentalsYieldMalformed(r) ==
    /\ InLoop(r)
    /\ domain = "fundamentals"
    /\ ticker(r) \notin processed(r)
    /\ Budget(r) > 0
    /\ fetched' = [fetched EXCEPT ![r] = Append(fetched[r], BadRow(ticker(r)))]
    /\ attempted' = [attempted EXCEPT ![r] = attempted[r] \cup {ticker(r)}]
    /\ lastBound' = [lastBound EXCEPT ![r] = NoDate]
    /\ served' = served + 1
    /\ UNCHANGED <<rangevars,
                   responses, batchvars, vendorPages, readFailed, lastWriter,
                   domain, hasModified, snapshot, runs, pc, existing, path,
                   from_date, idx, page_count, cursor, result, wrote,
                   hadFailure, startSnap, prevResult>>

\* get_ticker_events answers with events the last of which has a malformed
\* date.  The update branch parses the dates inside the try block, before
\* event_history.extend(collection): the exception is logged and nothing of
\* this answer is collected.  The initial branch collects the events unparsed.
EventsFetchMalformed(r) ==
    /\ InLoop(r)
    /\ domain = "ticker_events"
    /\ Budget(r) > 0
    /\ \E good \in SeqsUpTo(VendorRows(ticker(r), NoDate), Budget(r) - 1) :
          LET events == Append(good, BadRow(ticker(r)))
          IN /\ IF path[r] = "incremental"
                THEN /\ hadFailure' = [hadFailure EXCEPT ![r] = TRUE]
                     /\ UNCHANGED fetched
                ELSE /\ fetched' = [fetched EXCEPT ![r] = fetched[r] \o events]
                     /\ UNCHANGED hadFailure
             /\ served' = served + Len(events)
             /\ responses' = [responses EXCEPT ![r] =
                                Append(responses[r], events)]
    /\ idx' = [idx EXCEPT ![r] = idx[r] + 1]
    /\ attempted' = [attempted EXCEPT ![r] = attempted[r] \cup {ticker(r)}]
    /\ lastBound' = [lastBound EXCEPT ![r] = NoDate]
    /\ UNCHANGED <<rangevars, batchvars, vendorPages, readFailed, lastWriter,
                   domain, hasModified, snapshot, runs, pc, existing, path,
                   from_date, page_count, cursor, result, wrote,
                   startSnap, prevResult>>

\* a page of the IPO endpoint with a record whose modified_date is malformed
IpoPageMalformed(r) ==
    /\ InPages(r)
    /\ hasModified
    /\ Budget(r) > 0
    /\ page_count' = [page_count EXCEPT ![r] = page_count[r] + 1]
    /\ \E tk \in Tickers :
          fetched' = [fetched EXCEPT ![r] = Append(fetched[r], BadRow(tk))]
    /\ served' = served + 1
    /\ \E next_url \in {"absent", "with_cursor"} :
          IF next_url = "with_cursor"
          THEN /\ cursor' = [cursor EXCEPT ![r] = TRUE]
               /\ UNCHANGED pc
          ELSE /\ pc' = [pc EXCEPT ![r] = "ipo_done"]
               /\ UNCHANGED cursor
    /\ lastBound' = [lastBound EXCEPT ![r] = from_date[r]]
    /\ UNCHANGED <<rangevars,
                   responses, batchvars, vendorPages, readFailed, lastWriter,
                   domain, hasModified, snapshot, runs, existing, path,
                   from_date, idx, result, wrote, hadFailure, attempted,
                   startSnap, prevResult>>

\* the script leaves the run with an exception of pd.to_datetime
RaiseValueError(r) ==
    /\ pc' = [pc EXCEPT ![r] = "value_error"]
    /\ UNCHANGED <<rangevars,
                   responses, batchvars, vendorPages, readFailed, lastWriter,
                   domain, hasModified, snapshot, runs, existing, path,
                   from_date, idx, fetched, page_count, cursor, result, wrote,
                   hadFailure, attempted, lastBound, startSnap, prevResult,
                   served>>

\* a recovery: the run goes on with the initial import
DetermineValueErrorCaught(r) ==
    /\ pc[r] = "determine"
    /\ domain # "fundamentals"
    /\ HasSnapshot(existing[r])
    /\ ~CanConvert(existing[r].rows)
    /\ pc' = [pc EXCEPT ![r] = IF domain = "ipos" THEN "ipo_page" ELSE "fetch"]
    /\ path' = [path EXCEPT ![r] = "full"]
    /\ existing' = [existing EXCEPT ![r] = None]
    /\ UNCHANGED <<rangevars,
                   responses, batchvars, vendorPages, readFailed, lastWriter,
                   domain, hasModified, snapshot, runs, from_date, idx,
                   fetched, page_count, cursor, result, wrote, hadFailure,
                   attempted, lastBound, startSnap, prevResult, served>>

\* "Determine what to update": pd.to_datetime(existing[...]).max() raises on
\* the malformed date; nothing catches it.  (The fundamentals script parses no
\* date.)
DetermineValueError(r) ==
    /\ pc[r] = "determine"
    /\ domain # "fundamentals"
    /\ HasSnapshot(existing[r])
    /\ ~CanConvert(existing[r].rows)
    /\ RaiseValueError(r)

\* pd.to_datetime on the fetched records raises before the save: in the merge
\* of the dividends and splits scripts, in both branches of the IPO script, in
\* the initial import of the ticker-events script
ReconcileValueError(r) ==
    /\ ~CanConvert(fetched[r])
    /\ \/ LoopDone(r) /\ domain \in ListDomains /\ path[r] = "incremental"
       \/ LoopDone(r) /\ domain = "ticker_events"
       \/ /\ domain = "ipos"
          /\ \/ pc[r] = "ipo_done"
             \/ pc[r] = "ipo_page" /\ page_count[r] >= max_pages
    /\ RaiseValueError(r)

NextDates ==
    \/ Step(1)
    \/ ListYieldMalformed(1)
    \/ FundamentalsYieldMalformed(1)
    \/ EventsFetchMalformed(1)
    \/ IpoPageMalformed(1)
    \/ DetermineValueError(1)
    \/ ReconcileValueError(1)

SpecDates == InitDates /\ [][NextDates]_vars

\* ------------------------------------------------- two runs at the same time
\* a process of the script starts: its run reads the file
StartProcess(r) == runs < MaxProcesses /\ ReadSnapshot(r)

\* the steps of one run of the dividends or of the splits script whose vendor
\* calls do not raise
ListStep(r) ==
    \/ StartProcess(r)
    \/ DetermineUpdate(r)
    \/ ListYield(r)
    \/ ListExhausted(r)
    \/ ListReconcile(r)

InitConcurrent == Init /\ domain \in ListDomains

\* nothing keeps a second process of the same script from starting while the
\* first one is under way: the steps of the two runs interleave
NextConcurrent == \E r \in Runs : ListStep(r)

SpecConcurrent == InitConcurrent /\ [][NextConcurrent]_vars

\* ------------------------------------- records dated inside the lookback
\* a date less than lookback_days before the later one of VendorDates: a
\* request with the lower bound of a snapshot that ends there is answered
\* with records of this date too
LateDate == Str(2024, 4, 5)

\* the request carries no lower bound, or one that lets LateDate through
AdmitsLateDate(bound) == bound.t = "none" \/ DateLE(bound, LateDate)

\* list_dividends yields a record dated LateDate
ListYieldLate(r) ==
    /\ InLoop(r)
    /\ domain \in ListDomains
    /\ Budget(r) > 0
    /\ AdmitsLateDate(from_date[r])
    /\ \E p \in Payloads :
          fetched' = [fetched EXCEPT ![r] =
                        Append(fetched[r], Row(ticker(r), LateDate, "k1", p))]
    /\ attempted' = [attempted EXCEPT ![r] = attempted[r] \cup {ticker(r)}]
    /\ lastBound' = [lastBound EXCEPT ![r] = from_date[r]]
    /\ served' = served + 1
    /\ UNCHANGED <<rangevars,
                   responses, batchvars, vendorPages, readFailed, lastWriter,
                   domain, hasModified, snapshot, runs, pc, existing, path,
                   from_date, idx, page_count, cursor, result, wrote,
                   hadFailure, startSnap, prevResult>>

\* a page of the IPO endpoint with one record whose modified_date is LateDate
IpoPageLate(r) ==
    /\ InPages(r)
    /\ hasModified
    /\ Budget(r) > 0
    /\ AdmitsLateDate(from_date[r])
    /\ page_count' = [page_count EXCEPT ![r] = page_count[r] + 1]
    /\ \E tk \in Tickers, p \in Payloads :
          fetched' = [fetched EXCEPT ![r] =
                        Append(fetched[r], Row(tk, LateDate, "k1", p))]
    /\ served' = served + 1
    /\ \E next_url \in {"absent", "with_cursor"} :
          IF next_url = "with_cursor"
          THEN /\ cursor' = [cursor EXCEPT ![r] = TRUE]
               /\ UNCHANGED pc
          ELSE /\ pc' = [pc EXCEPT ![r] = "ipo_done"]
               /\ UNCHANGED cursor
    /\ lastBound' = [lastBound EXCEPT ![r] = from_date[r]]
    /\ UNCHANGED <<rangevars,
                   responses, batchvars, vendorPages, readFailed, lastWriter,
                   domain, hasModified, snapshot, runs, existing, path,
                   from_date, idx, result, wrote, hadFailure, attempted,
                   startSnap, prevResult>>

InitWatermark == Init /\ domain \in {"dividends", "ipos"}

\* the steps of the dividends and of the IPO script
NextWatermark ==
    \/ StartProcess(1)
    \/ DetermineUpdate(1)
    \/ IpoDetermineUpdate(1)
    \/ ListYield(1)
    \/ ListYieldLate(1)
    \/ ListExhausted(1)
    \/ ListRaise(1)
    \/ IpoPageResults(1)
    \/ IpoPageLate(1)
    \/ IpoPageEmpty(1)
    \/ IpoPageRaise(1)
    \/ ListReconcile(1)
    \/ IpoReconcile(1)

\* MaxProcesses runs of the dividends or of the IPO script, one after the
\* other, against a vendor that has records of three dates
SpecWatermark == InitWatermark /\ [][NextWatermark]_vars

\* ------------------------------------------- an IPO endpoint with many pages
\* the record on page p of the endpoint (one record a page; its payload tells
\* the page)
PageRow(p) == Row("AAPL", Str(2024, 4, 10), "k1", p)

\* one run of the IPO script, without a file or over a file with one record,
\* against an endpoint that has vendorPages pages
InitPages ==
    /\ domain = "ipos"
    /\ hasModified = TRUE
    /\ snapshot \in {NoFile,
                     File(<<Row("MSFT", to_datetime(Str(2024, 4, 10)), "k1",
                                0)>>)}
    /\ InitRun
    /\ NoDownload
    /\ vendorPages \in 0..MaxPages
    /\ InitBatchLoop(<<>>)

StartPagedRun(r) == runs = 0 /\ ReadSnapshot(r)

\* a loop that never follows the cursor
IpoPageOfVendorStopsEarly(r) ==
    /\ InPages(r)
    /\ page_count[r] < vendorPages
    /\ page_count' = [page_count EXCEPT ![r] = page_count[r] + 1]
    /\ fetched' = [fetched EXCEPT ![r] =
                     Append(fetched[r], PageRow(page_count[r] + 1))]
    /\ served' = served + 1
    /\ pc' = [pc EXCEPT ![r] = "ipo_done"]
    /\ lastBound' = [lastBound EXCEPT ![r] = from_date[r]]
    /\ UNCHANGED <<rangevars, responses,
                   batchvars, vendorPages, readFailed, lastWriter, domain,
                   hasModified, snapshot, runs, existing, path, from_date,
                   idx, cursor, result, wrote, hadFailure, attempted,
                   startSnap, prevResult>>

\* the request for the next page is answered with that page: its record is
\* appended; next_url carries a cursor when there is a page behind it and is
\* absent on the last page
IpoPageOfVendor(r) ==
    /\ InPages(r)
    /\ page_count[r] < vendorPages
    /\ page_count' = [page_count EXCEPT ![r] = page_count[r] + 1]
    /\ fetched' = [fetched EXCEPT ![r] =
                     Append(fetched[r], PageRow(page_count[r] + 1))]
    /\ served' = served + 1
    /\ IF page_count[r] + 1 < vendorPages
       THEN /\ cursor' = [cursor EXCEPT ![r] = TRUE]
            /\ UNCHANGED pc
       ELSE /\ pc' = [pc EXCEPT ![r] = "ipo_done"]
            /\ UNCHANGED cursor
    /\ lastBound' = [lastBound EXCEPT ![r] = from_date[r]]
    /\ UNCHANGED <<rangevars, responses,
                   batchvars, vendorPages, readFailed, lastWriter, domain,
                   hasModified, snapshot, runs, existing, path, from_date,
                   idx, result, wrote, hadFailure, attempted, startSnap,
                   prevResult>>

\* a request may also be answered with a status that is not 200 or without
\* results (IpoPageEmpty), or raise (IpoPageRaise)
NextPages ==
    \/ StartPagedRun(1)
    \/ IpoDetermineUpdate(1)
    \/ IpoPageOfVendor(1)
    \/ IpoPageEmpty(1)
    \/ IpoPageRaise(1)
    \/ IpoReconcile(1)

SpecPages == InitPages /\ [][NextPages]_vars

\* the script is one sequential process: as long as every request returns or
\* raises, the step it is at is taken
SpecPagesFair == SpecPages /\ WF_vars(NextPages)

\* ------------------------------------------------------- the batches
\* slices that are one entity short
ticker_batches_short_slices(list, size) ==
    [k \in 1..((Len(list) + size - 1) \div size) |->
        SubSeq(list, (k - 1) * size + 1,
               IF k * size - 1 <= Len(list) THEN k * size - 1 ELSE Len(list))]

\* [list[i : i + size] for i in range(0, len(list), size)]
ticker_batches(list, size) ==
    [k \in 1..((Len(list) + size - 1) \div size) |->
        SubSeq(list, (k - 1) * size + 1,
               IF k * size <= Len(list) THEN k * size ELSE Len(list))]

\* the loop over the batches of a list of 0..MaxEntities entities (named by
\* their position in the list); the records the calls return are left out
InitBatches ==
    /\ domain \in ListDomains \cup {"ticker_events"}
    /\ hasModified = TRUE
    /\ snapshot = NoFile
    /\ InitRun
    /\ NoDownload
    /\ vendorPages = 0
    /\ \E n \in 0..MaxEntities : InitBatchLoop([i \in 1..n |-> i])

InBatches == bi <= Len(ticker_batches(entity_list, batch_size))
batch == ticker_batches(entity_list, batch_size)[bi]

\* for ticker in batch: the try block with the vendor call for this ticker,
\* whether it returns or raises
BatchEntity ==
    /\ InBatches
    /\ bj <= Len(batch)
    /\ visited' = Append(visited, batch[bj])
    /\ bj' = bj + 1
    /\ UNCHANGED <<rangevars, responses,
                   entity_list, bi, vendorPages, readFailed, lastWriter,
                   domain, hasModified, snapshot, runs, pc, existing, path,
                   from_date, idx, fetched, page_count, cursor, result, wrote,
                   hadFailure, attempted, lastBound, startSnap, prevResult,
                   served>>

\* the batch is through: time.sleep(1), next batch
BatchEnd ==
    /\ InBatches
    /\ bj > Len(batch)
    /\ bi' = bi + 1
    /\ bj' = 1
    /\ UNCHANGED <<rangevars, responses,
                   entity_list, visited, vendorPages, readFailed, lastWriter,
                   domain, hasModified, snapshot, runs, pc, existing, path,
                   from_date, idx, fetched, page_count, cursor, result, wrote,
                   hadFailure, attempted, lastBound, startSnap, prevResult,
                   served>>

NextBatches == BatchEntity \/ BatchEnd

SpecBatches == InitBatches /\ [][NextBatches]_vars

\* -------------------------------------- PolygonS3Connector.download_date_range
\* date.max
date_max == Date(9999, 12, 31)

\* date.fromordinal(d.toordinal() + 1), for d before date.max
next_day(d) ==
    IF d.d < DaysInMonth(d.y, d.m) THEN [d EXCEPT !.d = d.d + 1]
    ELSE IF d.m < 12 THEN [d EXCEPT !.m = d.m + 1, !.d = 1]
    ELSE Date(d.y + 1, 1, 1)

\* d, the day after d, ...: n days at most, none after date.max
RECURSIVE DaysFrom(_, _)
DaysFrom(d, n) ==
    IF n = 0 THEN <<>>
    ELSE IF d = date_max THEN <<d>>
    ELSE <<d>> \o DaysFrom(next_day(d), n - 1)

\* a > b on date objects
DateGT(a, b) == ~DateLE(a, b)

\* the calendar dates from a to b, both included (MaxDays of them at most)
DatesFromTo(a, b) ==
    SelectSeq(DaysFrom(a, MaxDays), LAMBDA d : DateLE(d, b))

\* current_date.strftime("%Y-%m-%d"): the C library writes a year below 1000
\* with four digits (pad) or with the digits it has
date_strftime(d, pad) ==
    [y |-> d.y, m |-> d.m, d |-> d.d,
     year_digits |-> IF d.y >= 1000 \/ pad THEN 4
                     ELSE IF d.y >= 100 THEN 3
                     ELSE IF d.y >= 10 THEN 2 ELSE 1]

\* datetime.strptime(date_str, "%Y-%m-%d") does not raise: %Y takes four
\* digits
strptime_ok(date_str) ==
    /\ date_str.year_digits = 4
    /\ date_str.m \in 1..12
    /\ date_str.d \in 1..DaysInMonth(date_str.y, date_str.m)

\* all_files[date_str] = files
dict_set(dict, key, value) ==
    IF \E i \in 1..Len(dict) : dict[i].date_str = key
    THEN [i \in 1..Len(dict) |->
            IF dict[i].date_str = key THEN [dict[i] EXCEPT !.files = value]
            ELSE dict[i]]
    ELSE Append(dict, [date_str |-> key, files |-> value])

\* the first days of the ranges: the end of a year, the end of February in a
\* leap year and in another year, the last days before the year 1000, the
\* last days of the calendar
StartDates ==
    {Date(2023, 12, 30), Date(2024, 2, 27), Date(2023, 2, 27),
     Date(999, 12, 30), Date(9999, 12, 29)}

\* ranges of 1..MaxDays days, and the same pairs the wrong way round
DateRanges ==
    LET forward == UNION {{<<s, DaysFrom(s, MaxDays)[k]>> :
                              k \in 1..Len(DaysFrom(s, MaxDays))} :
                          s \in StartDates}
    IN forward \cup {<<pair[2], pair[1]>> : pair \in forward}

InitDownload ==
    /\ domain = "dividends"
    /\ hasModified = TRUE
    /\ snapshot = NoFile
    /\ InitRun
    /\ vendorPages = 0
    /\ InitBatchLoop(<<>>)
    /\ valid_category \in BOOLEAN
    /\ zero_pad \in BOOLEAN
    /\ \E pair \in DateRanges :
          /\ start_date = pair[1]
          /\ end_date = pair[2]
          /\ current_date = pair[1]
    /\ all_files = <<>>
    /\ drpc = "idle"
    /\ requested = <<>>
    /\ downloaded = 0

\* the call: if start_date > end_date: raise ValueError
DownloadDateRange ==
    /\ drpc = "idle"
    /\ drpc' = IF DateGT(start_date, end_date) THEN "raised_range" ELSE "loop"
    /\ current_date' = start_date
    /\ all_files' = <<>>
    /\ UNCHANGED <<valid_category, zero_pad, start_date, end_date, requested,
                   downloaded, pipelinevars, batchvars>>

\* what download_file does with one listed file: it stores it, raises
\* ClientError (download_data logs it and goes on), or raises something else
\* (a gzip or file-system error), which nothing catches
\* The listings of a date: none, one or two files, with what download_file
\* does with each of them in turn.
Listings ==
    {<<>>, <<"stored">>, <<"client_error">>, <<"other_error">>,
     <<"stored", "stored">>, <<"stored", "client_error">>,
     <<"client_error", "stored">>, <<"stored", "other_error">>}

\* the files of the listing that are tried: all when no download raises an
\* uncaught error, else those up to the first that does
Tried(outcomes) ==
    IF \E i \in 1..Len(outcomes) : outcomes[i] = "other_error"
    THEN SubSeq(outcomes, 1,
                CHOOSE i \in 1..Len(outcomes) :
                    /\ outcomes[i] = "other_error"
                    /\ \A j \in 1..(i - 1) : outcomes[j] # "other_error")
    ELSE outcomes

\* downloaded_files: the positions in the listing of the files stored
Stored(outcomes) ==
    SelectSeq([i \in 1..Len(outcomes) |-> i],
              LAMBDA i : outcomes[i] = "stored")

\* a loop that goes on to the day after end_date
InRangeOneDayMore ==
    drpc = "loop" /\ DateLE(current_date, next_day(end_date))

\* while current_date <= end_date
InRange == drpc = "loop" /\ DateLE(current_date, end_date)

\* one turn of the loop: download_data for current_date (the category check,
\* the parse of date_str, list_files, download_file for every listed file),
\* the entry of all_files, the move to the next day
DownloadDay ==
    /\ InRange
    /\ \E outcomes \in Listings :
          LET date_str == date_strftime(current_date, zero_pad)
              tried == Tried(outcomes)
              listing == valid_category /\ strptime_ok(date_str)
          IN /\ requested' = Append(requested,
                                    [date_str |-> date_str,
                                     listed |-> IF listing THEN Len(outcomes)
                                                ELSE 0])
             /\ IF ~valid_category
                THEN /\ drpc' = "raised_category"
                     /\ UNCHANGED <<downloaded, all_files, current_date>>
                ELSE IF ~strptime_ok(date_str)
                THEN /\ drpc' = "raised_format"
                     /\ UNCHANGED <<downloaded, all_files, current_date>>
                ELSE IF \E i \in 1..Len(outcomes) : outcomes[i] = "other_error"
                THEN /\ drpc' = "raised_other"
                     /\ downloaded' = downloaded + Len(Stored(tried))
                     /\ UNCHANGED <<all_files, current_date>>
                ELSE /\ downloaded' = downloaded + Len(Stored(outcomes))
                     /\ all_files' = dict_set(all_files, date_str,
                                              Stored(outcomes))
                     /\ IF current_date = date_max
                        THEN /\ drpc' = "raised_overflow"
                             /\ UNCHANGED current_date
                        ELSE /\ current_date' = next_day(current_date)
                             /\ UNCHANGED drpc
    /\ UNCHANGED <<valid_category, zero_pad, start_date, end_date, pipelinevars,
                   batchvars>>

\* return all_files
DownloadReturn ==
    /\ drpc = "loop"
    /\ ~InRange
    /\ drpc' = "returned"
    /\ UNCHANGED <<valid_category, zero_pad, start_date, end_date, current_date,
                   all_files, requested, downloaded, pipelinevars, batchvars>>

NextDownload == DownloadDateRange \/ DownloadDay \/ DownloadReturn

\* the call is one sequential computation: as long as every request to the
\* bucket returns or raises, the step it is at is taken
SpecDownload == InitDownload /\ [][NextDownload]_vars /\ WF_vars(NextDownload)

\* ================================================================ properties
\* a row with its date as a Timestamp: the same record whatever the
\* representation of the date
Norm(row) == [row EXCEPT !.date = to_datetime(row.date)]

\* the natural-key tuple of a row: the drop_duplicates subset, and the ticker
\* for IPOs (the column their merge matches on)
NaturalKey(row) ==
    IF domain = "ipos" THEN <<row.ticker>>
    ELSE KeyOf(Norm(row), subset_columns)

Keys(rows) == {NaturalKey(rows[i]) : i \in 1..Len(rows)}
RowSet(rows) == {Norm(rows[i]) : i \in 1..Len(rows)}
RowsWithKey(rows, k) ==
    {Norm(rows[i]) : i \in {j \in 1..Len(rows) : NaturalKey(rows[j]) = k}}
FirstWithKey(rows, k) ==
    Norm(rows[CHOOSE i \in 1..Len(rows) :
                /\ NaturalKey(rows[i]) = k
                /\ \A j \in 1..(i - 1) : NaturalKey(rows[j]) # k])
NoDupKeys(rows) ==
    \A i, j \in 1..Len(rows) :
        i # j => NaturalKey(rows[i]) # NaturalKey(rows[j])

Done(r) == pc[r] = "done"
\* run r is over and went through the merge of a snapshot with fetched rows
Merged(r) == Done(r) /\ path[r] = "incremental" /\ fetched[r] # <<>>
SharedKeys(r) == Keys(existing[r].rows) \cap Keys(fetched[r])

\* ------------------------------------------------------------------------ C1
\* C1 as stated: for a key that a fetched and an existing record share, the
\* merged result of an incremental run holds the fetched version.
C1_FetchedVersionWins ==
    \A r \in Runs :
        Merged(r) =>
            \A k \in SharedKeys(r) :
                /\ RowsWithKey(result[r].rows, k) # {}
                /\ RowsWithKey(result[r].rows, k)
                      \subseteq RowsWithKey(fetched[r], k)

\* C1 amended: for a key that a fetched and an existing record share, the
\* merged result of a dividends, splits, ticker-events or fundamentals run
\* holds exactly one record with that key, the first existing one; the fetched
\* version is dropped.  Only the IPO merge holds the fetched records of the
\* key and none of the existing ones.
C1_ExistingVersionKept ==
    \A r \in Runs :
        Merged(r) =>
            \A k \in SharedKeys(r) :
                IF domain = "ipos"
                THEN RowsWithKey(result[r].rows, k) = RowsWithKey(fetched[r], k)
                ELSE RowsWithKey(result[r].rows, k)
                        = {FirstWithKey(existing[r].rows, k)}

\* a dividends merge where a fetched row shares its key with an existing row
\* and differs from it outside the key
C1_Witness ==
    \E r \in Runs :
        /\ Merged(r)
        /\ domain = "dividends"
        /\ \E k \in SharedKeys(r) :
              RowsWithKey(fetched[r], k) # RowsWithKey(existing[r].rows, k)

\* ------------------------------------------------------------------------ C2
\* C2: the result of reconciling a snapshot with a fetched batch never holds
\* two records with equal key tuples.
C2_ResultHasUniqueKeys ==
    \A r \in Runs : Done(r) => NoDupKeys(result[r].rows)

\* ------------------------------------------------------------------------ C3
\* C3: every persisted snapshot, the one of the initial full fetch included,
\* holds no two records with the same natural-key tuple.
C3_SnapshotHasUniqueKeys ==
    snapshot.exists => NoDupKeys(snapshot.rows)

\* ------------------------------------------------------------------------ C4
\* C4: without an existing snapshot the result is the fetched batch
\* deduplicated by the natural key: one record per distinct key tuple of the
\* batch, each of them a fetched record.
C4_FullFetchDeduplicates ==
    \A r \in Runs :
        (Done(r) /\ ~startSnap[r].exists) =>
            /\ NoDupKeys(result[r].rows)
            /\ Keys(result[r].rows) = Keys(fetched[r])
            /\ RowSet(result[r].rows) \subseteq RowSet(fetched[r])

\* ------------------------------------------------------------------------ C5
\* C5: every record of the existing snapshot whose key does not occur in the
\* fetched batch is in the merged result, unchanged.
C5_UntouchedExistingSurvive ==
    \A r \in Runs :
        (Done(r) /\ path[r] = "incremental") =>
            \A i \in 1..Len(existing[r].rows) :
                NaturalKey(existing[r].rows[i]) \notin Keys(fetched[r])
                    => Norm(existing[r].rows[i]) \in RowSet(result[r].rows)

\* ------------------------------------------------------------------------ C6
HadSnapshot(r) == startSnap[r].exists /\ startSnap[r].rows # <<>>

\* C6 as stated: with a non-empty snapshot and no fetched record the run
\* returns the snapshot as it is.
C6_EmptyFetchReturnsExisting ==
    \A r \in Runs :
        (Done(r) /\ HadSnapshot(r) /\ fetched[r] = <<>>) =>
            result[r] = DataFrame(startSnap[r].rows)

\* C6 amended: with a non-empty snapshot and no fetched record the run writes
\* nothing, raises nothing and returns the snapshot as it is; only an IPO run
\* over a snapshot without modified_date column, which takes the initial
\* import, returns an empty frame instead.
C6_EmptyFetchKeepsSnapshot ==
    \A r \in Runs :
        /\ (Done(r) /\ HadSnapshot(r) /\ fetched[r] = <<>>) =>
              /\ ~wrote[r]
              /\ snapshot = startSnap[r]
              /\ IF path[r] = "incremental"
                 THEN result[r] = DataFrame(startSnap[r].rows)
                 ELSE /\ domain = "ipos"
                      /\ ~hasModified
                      /\ result[r] = DataFrame(<<>>)
        /\ (pc[r] = "failed" /\ HadSnapshot(r)) =>
              (domain = "ipos" /\ ~hasModified)

\* a fundamentals run over a non-empty snapshot that fetched nothing
C6_Witness ==
    \E r \in Runs :
        /\ Done(r)
        /\ domain = "fundamentals"
        /\ HadSnapshot(r)
        /\ fetched[r] = <<>>
        /\ attempted[r] # {}

\* ------------------------------------------------------------------------ C7
\* C7: the merged result has as many records as there are distinct key tuples
\* in the existing snapshot and the fetched batch together.
C7_CountIsDistinctKeys ==
    \A r \in Runs :
        Done(r) =>
            Len(result[r].rows)
               = Cardinality(Keys(existing[r].rows) \cup Keys(fetched[r]))

\* ------------------------------------------------------------------------ C8
\* C8 as stated: a run that fetches nothing after a completed run returns what
\* that run returned and leaves the persisted snapshot as that run left it.
C8_Idempotent ==
    \A r \in Runs :
        (Done(r) /\ prevResult.done /\ fetched[r] = <<>>) =>
            /\ result[r] = prevResult.df
            /\ snapshot = startSnap[r]

\* C8 amended: a run that fetches nothing after a completed run leaves the
\* persisted snapshot as that run left it and returns what that run returned;
\* only an IPO run over a snapshot without modified_date column returns an
\* empty frame instead.
C8_IdempotentOnSnapshot ==
    \A r \in Runs :
        (Done(r) /\ prevResult.done /\ fetched[r] = <<>>) =>
            /\ snapshot = startSnap[r]
            /\ ~wrote[r]
            /\ IF domain = "ipos" /\ ~hasModified
               THEN result[r] = DataFrame(<<>>)
               ELSE result[r] = prevResult.df

\* the third dividends run fetches nothing after the second one merged two
\* rows into the snapshot
C8_Witness ==
    \E r \in Runs :
        /\ Done(r)
        /\ domain = "dividends"
        /\ runs = 3
        /\ prevResult.done
        /\ fetched[r] = <<>>
        /\ Len(result[r].rows) >= 2
        /\ result[r].rows[1].date.t = "ts"

\* ------------------------------------------------------------------------ C9
\* the watermark minus 7 days, read off the calendar for the two dates the
\* vendor reports
ExpectedFrom(rows) ==
    IF \E i \in 1..Len(rows) : strftime(rows[i].date) = Str(2024, 4, 10)
    THEN Str(2024, 4, 3)
    ELSE Str(2024, 3, 26)

Determined(r) == pc[r] \notin {"idle", "determine"}
Requested(r) == attempted[r] # {} \/ page_count[r] > 0

\* C9 as stated: in each of the five domains the lower bound of the run is
\* the maximum watermark of a non-empty snapshot minus 7 days, and there is
\* none without a snapshot.
C9_LowerBoundInEveryDomain ==
    \A r \in Runs :
        Determined(r) =>
            from_date[r] = IF HadSnapshot(r)
                           THEN ExpectedFrom(startSnap[r].rows)
                           ELSE NoDate

UsesWatermark ==
    \/ domain \in {"dividends", "splits", "ticker_events"}
    \/ domain = "ipos" /\ hasModified

\* C9 amended: in dividends, splits, ticker-events runs and in IPO runs whose
\* snapshot has the modified_date column, the from_date of a run over a
\* non-empty snapshot is its maximum watermark minus 7 days; dividends, splits
\* and IPO requests carry it as their lower bound.  A fundamentals run, an IPO
\* run over a snapshot without modified_date and every run without a snapshot
\* have no lower bound.
C9_LowerBoundWhereWatermarked ==
    \A r \in Runs :
        Determined(r) =>
            /\ from_date[r] = IF HadSnapshot(r) /\ UsesWatermark
                              THEN ExpectedFrom(startSnap[r].rows)
                              ELSE NoDate
            /\ Requested(r) =>
                  lastBound[r] = IF domain \in ListDomains \cup {"ipos"}
                                 THEN from_date[r]
                                 ELSE NoDate

\* a dividends run over a snapshot whose latest ex_dividend_date is
\* 2024-04-10 has sent a request with the lower bound 2024-04-03
C9_Witness ==
    \E r \in Runs :
        /\ domain = "dividends"
        /\ pc[r] = "fetch"
        /\ Requested(r)
        /\ HadSnapshot(r)
        /\ lastBound[r] = Str(2024, 4, 3)

\* ----------------------------------------------------------------------- C10
\* the entities the loop of run r has to send a request for
ToAttempt(r) ==
    IF domain = "fundamentals" THEN Tickers \ processed(r) ELSE Tickers

\* a completed run attempted every entity and persisted what it fetched
CompletedInFull(r) ==
    /\ domain # "ipos" => attempted[r] = ToAttempt(r)
    /\ fetched[r] # <<>> =>
          /\ wrote[r]
          /\ Keys(fetched[r]) \subseteq Keys(snapshot.rows)

Running(r) == pc[r] \in {"fetch", "ipo_page", "ipo_done"}

\* C11: a run whose read of the existing file fails is not ended by it; it
\* goes on as a run without snapshot: initial import, no lower bound on any
\* request, every entity attempted; what it returns holds fetched records
\* only, and that is what it persists.  (Only the re-raised request exception
\* of the IPO import ends it, as it ends every IPO import.)
C11_ReadFailureIsNoSnapshot ==
    \A r \in Runs :
        readFailed[r] =>
            /\ pc[r] # "value_error"
            /\ pc[r] = "failed" => (domain = "ipos" /\ hadFailure[r])
            /\ (Running(r) \/ Done(r)) =>
                  /\ path[r] = "full"
                  /\ existing[r] = None
                  /\ from_date[r] = NoDate
                  /\ Requested(r) => lastBound[r] = NoDate
            /\ Done(r) =>
                  /\ domain # "ipos" => attempted[r] = Tickers
                  /\ RowSet(result[r].rows) \subseteq RowSet(fetched[r])
                  /\ Keys(result[r].rows) = Keys(fetched[r])
                  /\ wrote[r] <=> fetched[r] # <<>>
                  /\ snapshot = IF wrote[r] THEN File(result[r].rows)
                                ELSE startSnap[r]

\* a dividends run could not read a file with rows, fetched other rows and
\* replaced the file with them: a row of the old file is gone
C11_Witness ==
    \E r \in Runs :
        /\ Done(r)
        /\ domain = "dividends"
        /\ readFailed[r]
        /\ wrote[r]
        /\ attempted[r] = Tickers
        /\ \E i \in 1..Len(startSnap[r].rows) :
              Norm(startSnap[r].rows[i]) \notin RowSet(snapshot.rows)

\* ----------------------------------------------------------------------- C15
\* C15: a run that is killed before its write leaves the persisted snapshot
\* as it was when the run read it; nothing the run fetched is persisted.
C15_TerminatedRunLeavesSnapshot ==
    \A r \in Runs :
        pc[r] = "terminated" =>
            /\ snapshot = startSnap[r]
            /\ ~wrote[r]
            /\ result[r] = None

\* the second dividends run was killed after the vendor had returned rows to
\* it: the file holds the rows of the first run only
C15_Witness ==
    \E r \in Runs :
        /\ pc[r] = "terminated"
        /\ domain = "dividends"
        /\ runs = 2
        /\ snapshot.exists
        /\ served > Len(snapshot.rows)

\* ----------------------------------------------------------------------- C12
\* the file of run r had rows and the run could read them
HadReadableSnapshot(r) == HadSnapshot(r) /\ ~readFailed[r]
\* run r has chosen its branch
Branched(r) == Running(r) \/ Done(r) \/ pc[r] = "failed"

C13_ReadOnceWriteOnceAtEnd ==
    /\ [](\A r \in Runs :
            /\ pc[r] = "determine" => (~Requested(r) /\ fetched[r] = <<>>)
            /\ wrote[r] => Done(r))
    /\ [][/\ \A r \in Runs :
               /\ startSnap'[r] # startSnap[r] =>
                     (pc[r] \in RunOver /\ pc'[r] = "determine")
               /\ existing'[r] # existing[r] =>
                     pc[r] \in RunOver \cup {"determine"}
               /\ (wrote'[r] /\ ~wrote[r]) =>
                     (pc[r] \notin RunOver /\ pc'[r] = "done")
          /\ runs' # runs =>
                \E r \in Runs : pc[r] \in RunOver /\ pc'[r] = "determine"
          /\ snapshot' # snapshot =>
                \E r \in Runs :
                   /\ pc[r] \notin RunOver
                   /\ pc'[r] = "done"
                   /\ wrote'[r]
                   /\ domain # "ipos" => idx[r] > Len(all_tickers_list)
                   /\ snapshot' = File(result'[r].rows)]_vars

\* a ticker-events run has replaced a file with rows by a different one
C13_Witness ==
    \E r \in Runs :
        /\ Done(r)
        /\ domain = "ticker_events"
        /\ wrote[r]
        /\ HadSnapshot(r)
        /\ snapshot # startSnap[r]

\* ----------------------------------------------------------------------- C17
\* C17: without an existing snapshot a run that fetches nothing returns an
\* empty snapshot, a record collection of size zero.
C17_NoSnapshotNoFetchReturnsEmpty ==
    \A r \in Runs :
        (Done(r) /\ ~startSnap[r].exists /\ fetched[r] = <<>>) =>
            result[r] = DataFrame(<<>>)

\* ----------------------------------------------------------------------- C20
\* the rows of rows that satisfy Test, in order and with their dates
\* as Timestamps
NormSelect(rows, Test(_)) ==
    SelectSeq([i \in 1..Len(rows) |-> Norm(rows[i])], Test)

LoopOver(r) ==
    \/ pc[r] \in {"ipo_done", "done", "failed"}
    \/ pc[r] = "ipo_page" /\ page_count[r] >= max_pages
\* the records of the first n pages, in page order
FirstPages(n) == [p \in 1..n |-> PageRow(p)]
\* every request of run r was answered with a page of records
AllAnswered(r) == page_count[r] = Len(fetched[r]) /\ ~hadFailure[r]
Min(a, b) == IF a <= b THEN a ELSE b

\* C16 as stated: when every request is answered, the loop goes on until the
\* endpoint has no further page, and the records collected are those of all
\* its pages, in page order.
C16_CollectsEveryPage ==
    \A r \in Runs :
        (LoopOver(r) /\ AllAnswered(r)) =>
            fetched[r] = FirstPages(vendorPages)

\* C16 amended: the loop requests the pages in order until a page comes
\* without next cursor, a request is answered without results or with a
\* status that is not 200, a request raises, or 100 pages have been requested.
\* The records collected are those of the pages requested before the loop
\* stopped, in page order: all the pages of the endpoint only when every
\* request was answered and the endpoint has at most 100 pages.
C16_CollectsPagesUntilStop ==
    \A r \in Runs :
        /\ pc[r] \in {"ipo_page", "ipo_done", "done", "failed"} =>
              /\ Len(fetched[r]) <= Min(vendorPages, max_pages)
              /\ fetched[r] = FirstPages(Len(fetched[r]))
              /\ page_count[r] <= max_pages
              /\ page_count[r] \in {Len(fetched[r]), Len(fetched[r]) + 1}
        /\ (LoopOver(r) /\ AllAnswered(r)) =>
              fetched[r] = FirstPages(Min(vendorPages, max_pages))

\* a run against an endpoint with 101 pages has ended after 100 requests,
\* all of them answered, and saved the records of 100 pages
C16_Witness ==
    \E r \in Runs :
        /\ Done(r)
        /\ vendorPages = max_pages + 1
        /\ AllAnswered(r)
        /\ Len(fetched[r]) = max_pages
        /\ wrote[r]

\* ----------------------------------------------------------------------- C19
RECURSIVE Flatten(_)
Flatten(seqs) ==
    IF seqs = <<>> THEN <<>> ELSE Head(seqs) \o Flatten(Tail(seqs))

\* C19: the batches are consecutive slices of at most 100 entities that
\* together are the list, in order and without overlap; the loop attempts
\* the entities one at a time in list order, and when it is over every entity
\* has been attempted exactly once.
C19_BatchesCoverListOnce ==
    LET batches == ticker_batches(entity_list, batch_size)
    IN /\ \A k \in 1..Len(batches) : Len(batches[k]) \in 1..batch_size
       /\ Flatten(batches) = entity_list
       /\ visited = SubSeq(entity_list, 1, Len(visited))
       /\ InBatches => Len(visited) = (bi - 1) * batch_size + bj - 1
       /\ ~InBatches => visited = entity_list

\* the loop is over for a list of 201 entities: three batches, the last one
\* with a single entity
C19_Witness ==
    /\ ~InBatches
    /\ Len(entity_list) = 2 * batch_size + 1
    /\ Len(ticker_batches(entity_list, batch_size)) = 3
    /\ Len(ticker_batches(entity_list, batch_size)[3]) = 1
    /\ Len(visited) = 2 * batch_size + 1

\* ----------------------------------------------------------------------- C18
\* the file run r read holds a malformed date in its watermark column
HadBadSnapshot(r) ==
    HadReadableSnapshot(r) /\ ~CanConvert(startSnap[r].rows)

\* C18 as stated: a run over a snapshot with a malformed date in its
\* watermark field ends with an uncaught error at its "determine" step and
\* writes nothing.
C18_MalformedDateIsFatal ==
    \A r \in Runs :
        (HadBadSnapshot(r) /\ pc[r] # "determine") =>
            /\ pc[r] = "value_error"
            /\ ~wrote[r]
            /\ snapshot = startSnap[r]

\* C18 amended: in the dividends, splits, ticker-events and IPO scripts a
\* malformed date in the watermark field of the existing snapshot ends the
\* run with an uncaught error before any request: nothing is returned, nothing
\* is written.  The fundamentals script never parses filing_date: its run goes
\* on as over any other snapshot.  No run that ends with this error has written.
C18_MalformedDateIsFatalWhereParsed ==
    \A r \in Runs :
        /\ (HadBadSnapshot(r) /\ pc[r] # "determine") =>
              IF domain = "fundamentals"
              THEN /\ pc[r] \in {"fetch", "done"}
                   /\ path[r] = "incremental"
              ELSE /\ pc[r] = "value_error"
                   /\ ~Requested(r)
        /\ pc[r] = "value_error" =>
              /\ domain # "fundamentals"
              /\ ~wrote[r]
              /\ result[r] = None
              /\ snapshot = startSnap[r]

\* the second dividends run ended with the error over the file the first run
\* saved, which holds a malformed date the vendor returned
C18_Witness ==
    \E r \in Runs :
        /\ pc[r] = "value_error"
        /\ domain = "dividends"
        /\ runs = 2
        /\ HadBadSnapshot(r)
        /\ \E i \in 1..Len(startSnap[r].rows) :
              startSnap[r].rows[i] = BadRow("MSFT")
        /\ fetched[r] = <<>>

\* ----------------------------------------------------------------------- C21
\* the ticker-events run r is in its update branch
EventsUpdate(r) == domain = "ticker_events" /\ path[r] = "incremental"

\* the date of the event is on or after the watermark of the snapshot the run
\* read minus 7 days, or the snapshot has no record of the event's FIGI
OnOrAfterLookback(r, row) ==
    DateLE(minus_days(max_date(startSnap[r].rows), lookback_days),
           to_datetime(row.date))
KnownFigi(r, figi) ==
    \E i \in 1..Len(startSnap[r].rows) : startSnap[r].rows[i].ticker = figi
Collectable(r, row) == OnOrAfterLookback(r, row) \/ ~KnownFigi(r, row.ticker)

\* the events of the answers that have a date of the calendar and are
\* collectable, in the order the vendor returned them
CollectableOf(r, answers) ==
    SelectSeq(Flatten(answers),
              LAMBDA row : parses(row.date) /\ Collectable(r, row))

\* C21 as stated: in the update branch of a ticker-events run, an event the
\* vendor returned is collected for the merge exactly when its date is on or
\* after the watermark minus 7 days or its FIGI has no record in the snapshot.
C21_CollectedIffNewOrUnknownFigi ==
    \A r \in Runs :
        EventsUpdate(r) => fetched[r] = CollectableOf(r, responses[r])

\* the answers every event of which could be processed
Processed(answers) == SelectSeq(answers, CanConvert)

\* C21 amended: the events collected are the collectable events of the
\* answers that were processed without an exception; of an answer whose
\* processing raised, no event is collected.  An older event of a FIGI the
\* snapshot knows is never collected.
C21_CollectedIffNewAndAnswerProcessed ==
    \A r \in Runs :
        EventsUpdate(r) =>
            /\ fetched[r] = CollectableOf(r, Processed(responses[r]))
            /\ \A i \in 1..Len(fetched[r]) :
                  \/ OnOrAfterLookback(r, fetched[r][i])
                  \/ ~KnownFigi(r, fetched[r][i].ticker)

\* an update run is through; the vendor returned an older event of a FIGI of
\* the snapshot, which was left out, and an older event of a FIGI the
\* snapshot has no record of, which was collected
C21_Witness ==
    \E r \in Runs :
        /\ EventsUpdate(r)
        /\ Done(r)
        /\ \E k \in 1..Len(responses[r]) :
           \E i \in 1..Len(responses[r][k]) :
              LET row == responses[r][k][i]
              IN /\ KnownFigi(r, row.ticker)
                 /\ ~OnOrAfterLookback(r, row)
                 /\ Norm(row) \notin RowSet(fetched[r])
        /\ \E i \in 1..Len(fetched[r]) :
              /\ ~KnownFigi(r, fetched[r][i].ticker)
              /\ ~OnOrAfterLookback(r, fetched[r][i])

\* ----------------------------------------------------------------------- C22
\* the records of ticker tk in rows
RecordsOf(rows, tk) ==
    {Norm(rows[i]) : i \in {j \in 1..Len(rows) : rows[j].ticker = tk}}

\* the fundamentals run r is past the load of the file
FundamentalsRun(r) == domain = "fundamentals" /\ pc[r] \in {"fetch", "done"}

\* no request is sent for ticker tk and no record of it is fetched
NeverFetched(r, tk) ==
    /\ tk \notin attempted[r]
    /\ RecordsOf(fetched[r], tk) = {}

DoneWithEmptyFetch(r) == Done(r) /\ fetched[r] = <<>>

\* C23: a run whose fetch yields no record writes nothing: the file is as the
\* run found it, and where there was none there is none.  A run that finds no
\* file takes the full fetch, so the run after such a run takes it again.
C23_EmptyFetchWritesNothing ==
    \A r \in Runs :
        /\ DoneWithEmptyFetch(r) =>
              /\ ~wrote[r]
              /\ snapshot = startSnap[r]
              /\ ~startSnap[r].exists => ~snapshot.exists
        /\ (~startSnap[r].exists /\ path[r] # "none") => path[r] = "full"

\* the run before returned an empty result and left no file, and this run
\* took the full fetch, which again yielded nothing and left no file
C23_Witness ==
    \E r \in Runs :
        /\ DoneWithEmptyFetch(r)
        /\ domain = "ticker_events"
        /\ prevResult.done
        /\ prevResult.df = DataFrame(<<>>)
        /\ ~startSnap[r].exists
        /\ path[r] = "full"
        /\ attempted[r] = Tickers
        /\ ~snapshot.exists

\* ----------------------------------------------------------------------- C24
\* C24 as stated: no step of a dividends, splits, ticker-events or
\* fundamentals run takes a natural-key tuple out of the persisted snapshot:
\* every key that is in the file stays in it through every later run.
C24_SnapshotNeverLosesKey ==
    [][domain # "ipos" =>
          Keys(snapshot.rows) \subseteq Keys(snapshot'.rows)]_vars

\* C24 amended: no step of a run that could read the file takes a key out of
\* it.  (A run whose read of the file failed saves what it fetched alone.)
C24_ReadableSnapshotNeverLosesKey ==
    [][(domain # "ipos" /\ \A r \in Runs : ~readFailed[r])
          => Keys(snapshot.rows) \subseteq Keys(snapshot'.rows)]_vars

\* a splits run merged fetched records into a snapshot: one of them had a key
\* of the snapshot, another a key the snapshot did not have
C24_Witness ==
    \E r \in Runs :
        /\ Merged(r)
        /\ ~readFailed[r]
        /\ domain = "splits"
        /\ SharedKeys(r) # {}
        /\ Keys(startSnap[r].rows) # {}
        /\ Keys(startSnap[r].rows) \subseteq Keys(snapshot.rows)
        /\ Keys(snapshot.rows) # Keys(startSnap[r].rows)

\* ----------------------------------------------------------------------- C25
\* the file has a maximum watermark value: it holds records, all of them
\* with the watermark column
HasWatermark(file) ==
    /\ file.exists
    /\ file.rows # <<>>
    /\ \A i \in 1..Len(file.rows) : file.rows[i].date.t # "none"

PageRequest(r) == page_count'[r] = page_count[r] + 1

\* the request was answered with a status other than 200 or without results,
\* or it raised: nothing was appended
NothingAppended(r) == fetched'[r] = fetched[r]

\* the request was answered with the last page of the endpoint, which has no
\* next cursor
LastPage(r) == page_count'[r] >= vendorPages

\* C26: the pagination loop of an IPO run sends at most 100 page requests; a
\* request that is answered with a non-200 status, without results or without
\* a next cursor is the last one; and the loop ends: the run returns, or ends
\* with the request's exception.
C26_PaginationTerminates ==
    /\ [](\A r \in Runs : page_count[r] <= max_pages)
    /\ [][\A r \in Runs :
            PageRequest(r) =>
                /\ page_count[r] < max_pages
                /\ (NothingAppended(r) \/ LastPage(r))
                      => pc'[r] # "ipo_page"]_vars
    /\ \A r \in Runs : (pc[r] = "ipo_page") ~> (pc[r] \in {"done", "failed"})

\* the update run over an endpoint with more than 100 pages is over: it sent
\* 100 requests, each answered with a page and a cursor
C26_Witness ==
    \E r \in Runs :
        /\ Done(r)
        /\ path[r] = "incremental"
        /\ vendorPages > max_pages
        /\ page_count[r] = max_pages
        /\ cursor[r]
        /\ ~hadFailure[r]

\* ----------------------------------------------------------------------- C27
\* the dates of the entries of a mapping, or of the download_data calls, in
\* order
DatesOf(entries) ==
    [i \in 1..Len(entries) |->
        Date(entries[i].date_str.y, entries[i].date_str.m,
             entries[i].date_str.d)]

Raised ==
    {"raised_range", "raised_category", "raised_format", "raised_other",
     "raised_overflow"}

\* start_date is after end_date: ValueError, and nothing was requested or
\* stored
RangeErrorBeforeAnyDownload ==
    (DateGT(start_date, end_date) /\ drpc # "idle") =>
        /\ drpc = "raised_range"
        /\ requested = <<>>
        /\ downloaded = 0

\* the mapping returned has one entry for every date from start_date to
\* end_date, in ascending order, which is the order the dates were
\* requested in; a date without files has the empty list
ReturnsOneEntryPerDate ==
    drpc = "returned" =>
        /\ DatesOf(all_files) = DatesFromTo(start_date, end_date)
        /\ DatesOf(requested) = DatesFromTo(start_date, end_date)
        /\ \A i \in 1..Len(all_files) :
              /\ all_files[i].date_str = requested[i].date_str
              /\ Len(all_files[i].files) <= requested[i].listed
              /\ requested[i].listed = 0 => all_files[i].files = <<>>

\* C27 as stated: with start_date after end_date the call raises ValueError
\* before any download; otherwise it does not raise, and returns a mapping
\* with one entry for every date of the range.
C27_RangeErrorOrMappingOfEveryDate ==
    /\ RangeErrorBeforeAnyDownload
    /\ ~DateGT(start_date, end_date) => drpc \notin Raised
    /\ ReturnsOneEntryPerDate

\* C27 amended: the call always ends.  With start_date after end_date it
\* raises ValueError before any download.  Otherwise it returns the mapping
\* with one entry for every date of the range, unless it raises: ValueError at
\* the first date, before any download, for a category that is not valid or a
\* year whose text has less than four digits; the uncaught error of a
\* download; ValueError after the last date when end_date is date.max.
C27_MappingOfEveryDateUnlessRaised ==
    /\ [](/\ RangeErrorBeforeAnyDownload
          /\ ReturnsOneEntryPerDate
          /\ drpc = "raised_range" => DateGT(start_date, end_date)
          /\ drpc = "raised_category" =>
                ~valid_category /\ Len(requested) = 1 /\ downloaded = 0
          /\ drpc = "raised_format" =>
                /\ start_date.y < 1000
                /\ ~zero_pad
                /\ Len(requested) = 1
                /\ downloaded = 0
          /\ drpc = "raised_overflow" =>
                /\ end_date = date_max
                /\ DatesOf(all_files) = DatesFromTo(start_date, end_date)
          /\ drpc = "returned" =>
                /\ valid_category
                /\ end_date # date_max
                /\ start_date.y >= 1000 \/ zero_pad)
    /\ (drpc = "idle") ~> (drpc \in Raised \cup {"returned"})

\* the call over 2024-02-27 .. 2024-03-01 returned: four entries, the leap
\* day among them, one date without files and one with all its files stored
C27_Witness ==
    /\ drpc = "returned"
    /\ start_date = Date(2024, 2, 27)
    /\ end_date = Date(2024, 3, 1)
    /\ Len(all_files) = 4
    /\ DatesOf(all_files)[3] = Date(2024, 2, 29)
    /\ \E i \in 1..Len(all_files) : all_files[i].files = <<>>
    /\ \E i \in 1..Len(all_files) : Len(all_files[i].files) = 2

====
